---- MODULE Spec2Model ----
(***************************************************************************)
(* Paper-trading decision engine (stock_market_ai_assistant).              *)
(*                                                                         *)
(* Plan-based pipeline  : api/routes.py (_run_intraday, _run_swing),       *)
(*                        services/{journal,execution,gtt,risk}_service.py *)
(*                        strategies/{swing_v1,intraday_v1}.py             *)
(* Tick-based portfolio : services/portfolio_service.py                    *)
(*                                                                         *)
(* Money is an integer number of pips (1 INR = 10000 pips), so that        *)
(* round(x, 4) is rounding to a whole pip and round(x, 2) is rounding to a *)
(* multiple of 100 pips.  Tick-based quantities are integer centi-shares.  *)
(***************************************************************************)
EXTENDS Integers, Sequences, FiniteSets, TLC

VARIABLES
    watchlist,   \* <<date, mode>> -> sequence of WatchlistDaily rows
    plans,       \* table trade_plan      (index = id)
    gtts,        \* table gtt_orders      (index = id)
    txs,         \* table transactions    (index = id)
    budgets,     \* table daily_budget    <<date, mode>> -> row
    run,         \* outcome of the last request handler (history variable)
    dayBudget,   \* table day_budget      date -> row
    positions,   \* table paper_position  (index = id)
    ptxs,        \* table paper_transaction
    tick,        \* outcome of the last tick-based request (history variable)
    dayPlan,     \* table day_plan with its universe snapshot and selections
    audits,      \* table top_stock_audit
    call         \* the last call of a strategy or cleanup function: arguments, result

vars == <<watchlist, plans, gtts, txs, budgets, run, dayBudget, positions, ptxs, tick,
          dayPlan, audits, call>>

tickVars == <<dayBudget, positions, ptxs, tick, dayPlan, audits, call>>

---------------------------------------------------------------------------
(* Bounds of the model *)

DayGap == 6         \* calendar days between the two run dates
MaxTxs == 3         \* rows of transactions
MaxPlans == 3       \* rows of trade_plan
MaxCapPlans == 6    \* rows of trade_plan, three symbols on the watchlist
MaxWatch == 2       \* symbols in one watchlist request
MaxSelections == 2  \* day_selection rows of one day plan
MaxAuditRows == 2   \* top_stock_audit rows of one date and mode
MaxPaperTxs == 5    \* rows of paper_transaction, sales of a requested quantity

Symbols == {"A", "B"}
Day1 == 1           \* the first run date
Dates == {Day1, Day1 + DayGap}
Modes == {"INTRADAY", "SWING"}

---------------------------------------------------------------------------
(* Program constants *)

Pip == 10000                              \* pips per INR
intraday_daily_budget_inr == 100 * Pip
intraday_max_open_positions == 1
swing_allocation_inr == 1000 * Pip
swing_max_open_positions == 2
max_stocks_per_mode == 10
DefaultHorizon == 20
MinSwingCandles == 60
MinIntradayCandles == 21
MinAtr == 100                             \* 0.01 INR
max_positions == 2
max_entries_per_symbol_per_day == 1
budget_daily_inr == 100 * Pip   \* StrategyConfig.budget_daily_inr as configured here
stop_pct == 10                            \* 1.0 %, in tenths of a percent
target_pct == 15                          \* 1.5 %, in tenths of a percent
rebalance_partial_threshold == 15         \* percent
rebalance_full_threshold == 20            \* percent
rebalance_partial_fraction == 50          \* 0.5, in hundredths
None == -1                                \* a NULL column

---------------------------------------------------------------------------
(* Arithmetic helpers *)

Max(a, b) == IF a >= b THEN a ELSE b
Min(a, b) == IF a <= b THEN a ELSE b
Abs(a) == IF a >= 0 THEN a ELSE -a

\* nearest integer to n / d (d > 0), ties to the even neighbour: Python round()
RoundDiv(n, d) ==
    LET q == n \div d
        r == n % d
    IN  IF 2 * r < d THEN q
        ELSE IF 2 * r > d THEN q + 1
        ELSE IF q % 2 = 0 THEN q ELSE q + 1

\* round(x, 2) of an amount in pips
Round2(x) == 100 * RoundDiv(x, 100)

\* round(x, 4) of n / d pips
Round4(n, d) == RoundDiv(n, d)

RECURSIVE SeqSum(_)
SeqSum(s) == IF s = <<>> THEN 0 ELSE Head(s) + SeqSum(Tail(s))

\* the indices of s whose element satisfies Test, ascending (a SELECT in id order)
SelectIds(n, ids) ==
    LET F[i \in 0 .. n] ==
            IF i = 0 THEN <<>>
            ELSE IF i \in ids THEN Append(F[i - 1], i) ELSE F[i - 1]
    IN  F[n]

---------------------------------------------------------------------------
(* Rows of the tables, and the database a handler works on *)

NoBudget == [exists |-> FALSE, budget_total |-> 0, spent |-> 0, remaining |-> 0]

EmptyDb ==
    [plans |-> <<>>, gtts |-> <<>>, txs |-> <<>>,
     budgets |-> [k \in Dates \X Modes |-> NoBudget],
     log |-> {},          \* writes to trade_plan rows made by the handler
     raised |-> FALSE,    \* an exception is propagating
     fetchFailed |-> FALSE,   \* ... raised by a market data fetch for a pending GTT
     fault |-> 0,         \* persistence step of the next execute_buy that fails
     faultPid |-> 0]      \* plan whose execute_buy failed

\* a write to plan `id`: its status before and after, and whether a column changed
LogWrite(db, id, old, new) ==
    [db EXCEPT !.log = @ \cup {[id |-> id, from |-> old.status, to |-> new.status,
                                dirty |-> old # new]}]

---------------------------------------------------------------------------
(* JournalService *)

_default_budget_total(mode) ==
    IF mode = "SWING" THEN swing_allocation_inr ELSE intraday_daily_budget_inr

get_or_create_budget(db, run_date, mode) ==
    IF db.budgets[<<run_date, mode>>].exists THEN db
    ELSE [db EXCEPT !.budgets[<<run_date, mode>>] =
            [exists |-> TRUE,
             budget_total |-> _default_budget_total(mode),
             spent |-> 0,
             remaining |-> _default_budget_total(mode)]]

\* variant: remaining is the plain difference, not floored at zero
update_budget_spent_NoFloor(db, run_date, mode, amount) ==
    LET db1 == get_or_create_budget(db, run_date, mode)
        b == db1.budgets[<<run_date, mode>>]
        spent == Round2(b.spent + amount)
    IN  [db1 EXCEPT !.budgets[<<run_date, mode>>] =
            [b EXCEPT !.spent = spent, !.remaining = Round2(b.budget_total - spent)]]

update_budget_spent(db, run_date, mode, amount) ==
    LET db1 == get_or_create_budget(db, run_date, mode)
        b == db1.budgets[<<run_date, mode>>]
        spent == Round2(b.spent + amount)
        remaining == Round2(Max(0, b.budget_total - spent))
    IN  [db1 EXCEPT !.budgets[<<run_date, mode>>] =
            [b EXCEPT !.spent = spent, !.remaining = remaining]]

budget_remaining(db, run_date, mode) ==
    get_or_create_budget(db, run_date, mode).budgets[<<run_date, mode>>].remaining

\* TradePlan(...) with create_trade_plan's defaults for stop_loss / take_profit
TradePlanRow(run_date, symbol, side, qty, price_ref, rationale, mode, plan_type, stop_loss, take_profit, gtt_buy_trigger, gtt_sell_trigger, holding_horizon_days, trailing_stop, status) ==
    [date |-> run_date, symbol |-> symbol, mode |-> mode, plan_type |-> plan_type,
     side |-> side, qty |-> qty, price_ref |-> price_ref,
     stop_loss |-> IF stop_loss # None THEN stop_loss ELSE Round4(price_ref * 99, 100),
     take_profit |-> IF take_profit # None THEN take_profit ELSE Round4(price_ref * 101, 100),
     gtt_buy_trigger |-> gtt_buy_trigger, gtt_sell_trigger |-> gtt_sell_trigger,
     holding_horizon_days |-> holding_horizon_days,
     trailing_stop |-> trailing_stop,      \* exit_rules_json["trailing_stop"]
     rationale |-> rationale, status |-> status]

create_trade_plan(db, row) == [db EXCEPT !.plans = Append(@, row)]

log_no_trade(db, run_date, symbol, mode, rationale, price_ref) ==
    create_trade_plan(db,
        TradePlanRow(run_date, symbol, "HOLD", 0, price_ref, rationale, mode, "MARKET",
                     None, None, None, None, None, None, "CANCELLED"))

update_trade_plan_status(db, trade_plan_id, status) ==
    IF trade_plan_id \notin 1 .. Len(db.plans) THEN db
    ELSE LET old == db.plans[trade_plan_id]
             new == [old EXCEPT !.status = status]
         IN  LogWrite([db EXCEPT !.plans[trade_plan_id] = new], trade_plan_id, old, new)

add_transaction(db, trade_plan_id, run_date, symbol, side, qty, mode, order_type, gtt_id, entry_price, exit_price, pnl) ==
    [db EXCEPT !.txs = Append(@,
        [trade_plan_id |-> trade_plan_id, date |-> run_date, symbol |-> symbol,
         side |-> side, qty |-> qty, mode |-> mode, order_type |-> order_type,
         gtt_id |-> gtt_id, entry_price |-> entry_price, exit_price |-> exit_price,
         pnl |-> pnl])]

create_gtt_order(db, run_date, symbol, side, qty, trigger_price, linked_trade_plan_id) ==
    [db EXCEPT !.gtts = Append(@,
        [date_created |-> run_date, symbol |-> symbol, side |-> side, qty |-> qty,
         trigger_price |-> trigger_price, status |-> "PENDING",
         linked_trade_plan_id |-> linked_trade_plan_id, executed_price |-> None])]

\* variant: the status argument is never written
update_gtt_KeepsStatus(db, gtt_id, trigger_price, status, executed_price) ==
    IF gtt_id \notin 1 .. Len(db.gtts) THEN db
    ELSE [db EXCEPT !.gtts[gtt_id] =
            [@ EXCEPT !.trigger_price = IF trigger_price # None THEN trigger_price ELSE @,
                      !.executed_price = IF executed_price # None THEN executed_price ELSE @]]

\* an argument left at None (or "" for the status) is not written
\* variant: a new trigger price cancels the order and places a new one
update_gtt_Recreate(db, gtt_id, trigger_price, status, executed_price) ==
    IF gtt_id \notin 1 .. Len(db.gtts) THEN db
    ELSE IF trigger_price # None
    THEN [db EXCEPT !.gtts = Append([@ EXCEPT ![gtt_id].status = "CANCELLED"],
                                    [@[gtt_id] EXCEPT !.trigger_price = trigger_price])]
    ELSE [db EXCEPT !.gtts[gtt_id] =
            [@ EXCEPT !.status = IF status # "" THEN status ELSE @,
                      !.executed_price = IF executed_price # None THEN executed_price ELSE @]]

update_gtt(db, gtt_id, trigger_price, status, executed_price) ==
    IF gtt_id \notin 1 .. Len(db.gtts) THEN db
    ELSE [db EXCEPT !.gtts[gtt_id] =
            [@ EXCEPT !.trigger_price = IF trigger_price # None THEN trigger_price ELSE @,
                      !.status = IF status # "" THEN status ELSE @,
                      !.executed_price = IF executed_price # None THEN executed_price ELSE @]]

\* variant: only the BUY orders of the plan are cancelled
cancel_pending_gtt_for_plan_BuysOnly(db, trade_plan_id) ==
    [db EXCEPT !.gtts =
        [i \in 1 .. Len(@) |->
            IF /\ @[i].linked_trade_plan_id = trade_plan_id /\ @[i].status = "PENDING"
               /\ @[i].side = "BUY"
            THEN [@[i] EXCEPT !.status = "CANCELLED"] ELSE @[i]]]

cancel_pending_gtt_for_plan(db, trade_plan_id) ==
    [db EXCEPT !.gtts =
        [i \in 1 .. Len(@) |->
            IF @[i].linked_trade_plan_id = trade_plan_id /\ @[i].status = "PENDING"
            THEN [@[i] EXCEPT !.status = "CANCELLED"] ELSE @[i]]]

\* sum of Transaction.qty over the INTRADAY rows of a date and side (any symbol: "")
TxQty(db, run_date, symbol, side) ==
    SeqSum([i \in 1 .. Len(db.txs) |->
        IF /\ db.txs[i].date = run_date
           /\ db.txs[i].mode = "INTRADAY"
           /\ db.txs[i].side = side
           /\ (symbol = "" \/ db.txs[i].symbol = symbol)
        THEN db.txs[i].qty ELSE 0])

\* variant: closed plans are handed to the exit processing as well
get_open_swing_plans_AndClosed(db) ==
    SelectIds(Len(db.plans),
            {k \in 1 .. Len(db.plans) :
                LET p == db.plans[k] IN p.mode = "SWING" /\ p.status \in {"OPEN", "CLOSED"}})

get_open_swing_plans(db) ==
    SelectIds(Len(db.plans),
            {k \in 1 .. Len(db.plans) :
                LET p == db.plans[k] IN p.mode = "SWING" /\ p.status = "OPEN"})

get_open_position_count(db, run_date, mode) ==
    IF mode = "SWING" THEN Len(get_open_swing_plans(db))
    ELSE IF TxQty(db, run_date, "", "BUY") - TxQty(db, run_date, "", "SELL") > 0
         THEN 1 ELSE 0

\* variant: the quantity bought, whatever has been sold since
get_open_qty_for_symbol_BuysOnly(db, run_date, symbol) ==
    Max(0, TxQty(db, run_date, symbol, "BUY"))

get_open_qty_for_symbol(db, run_date, symbol) ==
    Max(0, TxQty(db, run_date, symbol, "BUY") - TxQty(db, run_date, symbol, "SELL"))

\* variant: the latest BUY is returned whether or not any of it is still held
get_latest_open_buy_AnyBuy(db, run_date, symbol, mode) ==
    LET ids == SelectIds(Len(db.txs),
            {k \in 1 .. Len(db.txs) :
                LET t == db.txs[k] IN t.date = run_date /\ t.symbol = symbol /\ t.mode = mode /\ t.side = "BUY"})
    IN  IF ids = <<>> THEN 0 ELSE ids[Len(ids)]

\* id of the latest BUY of the symbol on the date, 0 for None
get_latest_open_buy(db, run_date, symbol, mode) ==
    IF get_open_qty_for_symbol(db, run_date, symbol) <= 0 THEN 0
    ELSE LET ids == SelectIds(Len(db.txs),
            {k \in 1 .. Len(db.txs) :
                LET t == db.txs[k] IN t.date = run_date /\ t.symbol = symbol /\ t.mode = mode /\ t.side = "BUY"})
         IN  IF ids = <<>> THEN 0 ELSE ids[Len(ids)]

---------------------------------------------------------------------------
(* RiskService, PaperBroker *)

can_open_new_position(db, run_date, mode) ==
    IF mode = "SWING"
    THEN get_open_position_count(db, run_date, mode) < swing_max_open_positions
    ELSE get_open_position_count(db, run_date, mode) < intraday_max_open_positions

\* variant: the whole remaining budget is spendable, whatever the mode's cap
size_buy_qty_NoCap(latest_price, remaining_budget, mode) ==
    IF latest_price <= 0 THEN 0 ELSE remaining_budget \div latest_price

\* variant: the intraday quantity is sized from the daily budget, not from
\* what remains of it
size_buy_qty_FromTotal(latest_price, remaining_budget, mode) ==
    IF latest_price <= 0 THEN 0
    ELSE IF mode = "SWING"
         THEN Min(remaining_budget, swing_allocation_inr) \div latest_price
         ELSE intraday_daily_budget_inr \div latest_price

size_buy_qty(latest_price, remaining_budget, mode) ==
    IF latest_price <= 0 THEN 0
    ELSE IF mode = "SWING"
         THEN Min(remaining_budget, swing_allocation_inr) \div latest_price
         ELSE Min(remaining_budget, intraday_daily_budget_inr) \div latest_price

\* variant: a BUY order looks at the candle's low
should_trigger_OnLow(side, trigger_price, candle_high, candle_low) ==
    IF side = "BUY" THEN candle_low >= trigger_price ELSE candle_low <= trigger_price

should_trigger(side, trigger_price, candle_high, candle_low) ==
    IF side = "BUY" THEN candle_high >= trigger_price ELSE candle_low <= trigger_price

---------------------------------------------------------------------------
(* ExecutionService *)

\* Each journal call commits on its own.  db.fault = k makes the k-th commit of
\* this call fail: the exception leaves execute_buy with the earlier commits kept.
execute_buy(db, trade_plan_id, run_date, symbol, qty, price, mode, order_type, gtt_id) ==
    LET failed(d) == [d EXCEPT !.raised = TRUE, !.fault = 0, !.faultPid = trade_plan_id]
        db1 == add_transaction(db, trade_plan_id, run_date, symbol, "BUY", qty, mode,
                               order_type, gtt_id, price, None, None)
        db2 == update_budget_spent(db1, run_date, mode, qty * price)
        db3 == update_trade_plan_status(db2, trade_plan_id, "OPEN")
    IN  CASE db.fault = 1 -> failed(db)
          [] db.fault = 2 -> failed(db1)
          [] db.fault = 3 -> failed(db2)
          [] OTHER -> db3

\* variant: the pnl is the cost less the proceeds
execute_sell_CostLessExit(db, trade_plan_id, run_date, symbol, qty, price, mode, order_type, gtt_id) ==
    LET swingBuys == SelectIds(Len(db.txs),
            {k \in 1 .. Len(db.txs) :
                LET t == db.txs[k] IN t.trade_plan_id = trade_plan_id /\ t.side = "BUY"})
        entry_id == IF mode = "SWING"
                    THEN (IF swingBuys = <<>> THEN 0 ELSE swingBuys[Len(swingBuys)])
                    ELSE get_latest_open_buy(db, run_date, symbol, mode)
    IN  IF mode = "SWING" /\ trade_plan_id \notin 1 .. Len(db.plans)
        THEN [db |-> db, executed |-> FALSE]
        ELSE IF entry_id = 0
        THEN [db |-> update_trade_plan_status(db, trade_plan_id, "CANCELLED"),
              executed |-> FALSE]
        ELSE LET entry_tx == db.txs[entry_id]
                 sell_qty == Min(qty, entry_tx.qty)
                 pnl == Round4((entry_tx.entry_price - price) * sell_qty, 1)
                 db1 == add_transaction(db, trade_plan_id, run_date, symbol, "SELL",
                                        sell_qty, mode, order_type, gtt_id,
                                        entry_tx.entry_price, price, pnl)
             IN  [db |-> update_trade_plan_status(db1, trade_plan_id, "CLOSED"),
                  executed |-> TRUE]

\* variant: the proceeds of a SELL are given back to the day's budget
execute_sell_Refund(db, trade_plan_id, run_date, symbol, qty, price, mode, order_type, gtt_id) ==
    LET swingBuys == SelectIds(Len(db.txs),
            {k \in 1 .. Len(db.txs) :
                LET t == db.txs[k] IN t.trade_plan_id = trade_plan_id /\ t.side = "BUY"})
        entry_id == IF mode = "SWING"
                    THEN (IF swingBuys = <<>> THEN 0 ELSE swingBuys[Len(swingBuys)])
                    ELSE get_latest_open_buy(db, run_date, symbol, mode)
    IN  IF mode = "SWING" /\ trade_plan_id \notin 1 .. Len(db.plans)
        THEN [db |-> db, executed |-> FALSE]
        ELSE IF entry_id = 0
        THEN [db |-> update_trade_plan_status(db, trade_plan_id, "CANCELLED"),
              executed |-> FALSE]
        ELSE LET entry_tx == db.txs[entry_id]
                 sell_qty == Min(qty, entry_tx.qty)
                 pnl == Round4((price - entry_tx.entry_price) * sell_qty, 1)
                 db1 == add_transaction(db, trade_plan_id, run_date, symbol, "SELL",
                                        sell_qty, mode, order_type, gtt_id,
                                        entry_tx.entry_price, price, pnl)
                 db2 == update_budget_spent(db1, run_date, mode, 0 - sell_qty * price)
             IN  [db |-> update_trade_plan_status(db2, trade_plan_id, "CLOSED"),
                  executed |-> TRUE]

\* returns the database and the "executed" flag of the result
execute_sell(db, trade_plan_id, run_date, symbol, qty, price, mode, order_type, gtt_id) ==
    LET swingBuys == SelectIds(Len(db.txs),
            {k \in 1 .. Len(db.txs) :
                LET t == db.txs[k] IN t.trade_plan_id = trade_plan_id /\ t.side = "BUY"})
        entry_id == IF mode = "SWING"
                    THEN (IF swingBuys = <<>> THEN 0 ELSE swingBuys[Len(swingBuys)])
                    ELSE get_latest_open_buy(db, run_date, symbol, mode)
    IN  IF mode = "SWING" /\ trade_plan_id \notin 1 .. Len(db.plans)
        THEN [db |-> db, executed |-> FALSE]
        ELSE IF entry_id = 0
        THEN [db |-> update_trade_plan_status(db, trade_plan_id, "CANCELLED"),
              executed |-> FALSE]
        ELSE LET entry_tx == db.txs[entry_id]
                 sell_qty == Min(qty, entry_tx.qty)
                 pnl == Round4((price - entry_tx.entry_price) * sell_qty, 1)
                 db1 == add_transaction(db, trade_plan_id, run_date, symbol, "SELL",
                                        sell_qty, mode, order_type, gtt_id,
                                        entry_tx.entry_price, price, pnl)
             IN  [db |-> update_trade_plan_status(db1, trade_plan_id, "CLOSED"),
                  executed |-> TRUE]

---------------------------------------------------------------------------
(* strategies: intraday_v1, swing_v1.  A market row is the last row of the
   candle frame with its indicators; ATR values of the model are even numbers
   of pips, so that 1.5 x ATR is a whole number of pips. *)

intraday_generate_signal(trend, rsi14) ==
    IF trend = "UPTREND" /\ rsi14 < 70 THEN "BUY"
    ELSE IF trend = "DOWNTREND" /\ rsi14 > 30 THEN "SELL"
    ELSE "HOLD"

NoParams == [entry_style |-> "", gtt_buy_trigger |-> None, stop_loss |-> None,
             take_profit |-> None]

\* variant: the ATR is taken as it comes
swing_generate_signal_NoAtrFloor(row) ==
    LET atr14 == row.atr14
        uptrend == row.close > row.sma50 /\ row.sma50 > row.prev_sma50
        near_ema20 == Abs(row.close - row.ema20) * 1000 <= 12 * Max(row.ema20, 1)
        breakout_high == row.high20
        bo_trigger == Round4(breakout_high * 1002, 1000)
        pb_trigger == Round4(Max(row.ema20, row.close) * 1001, 1000)
        setup(style, trigger, rationale) ==
            [action |-> "BUY_SETUP", rationale |-> rationale,
             params |-> [entry_style |-> style,
                         gtt_buy_trigger |-> trigger,
                         stop_loss |-> Round4(2 * trigger - 3 * atr14, 2),
                         take_profit |-> Round4(trigger + 2 * atr14, 1)]]
    IN  IF row.n < MinSwingCandles
        THEN [action |-> "HOLD", rationale |-> "Not enough daily candles", params |-> NoParams]
        ELSE IF /\ uptrend /\ breakout_high > 0 /\ row.close > breakout_high
                /\ 50 <= row.rsi14 /\ row.rsi14 <= 70
        THEN setup("breakout", bo_trigger, "Breakout above 20-day high")
        ELSE IF uptrend /\ near_ema20 /\ row.rsi14 > 45
        THEN setup("pullback", pb_trigger, "Pullback near EMA20")
        ELSE [action |-> "HOLD", rationale |-> "No swing entry setup", params |-> NoParams]

swing_generate_signal(row) ==
    LET atr14 == Max(row.atr14, MinAtr)
        uptrend == row.close > row.sma50 /\ row.sma50 > row.prev_sma50
        near_ema20 == Abs(row.close - row.ema20) * 1000 <= 12 * Max(row.ema20, 1)
        breakout_high == row.high20
        bo_trigger == Round4(breakout_high * 1002, 1000)
        pb_trigger == Round4(Max(row.ema20, row.close) * 1001, 1000)
        setup(style, trigger, rationale) ==
            [action |-> "BUY_SETUP", rationale |-> rationale,
             params |-> [entry_style |-> style,
                         gtt_buy_trigger |-> trigger,
                         stop_loss |-> Round4(2 * trigger - 3 * atr14, 2),
                         take_profit |-> Round4(trigger + 2 * atr14, 1)]]
    IN  IF row.n < MinSwingCandles
        THEN [action |-> "HOLD", rationale |-> "Not enough daily candles", params |-> NoParams]
        ELSE IF /\ uptrend /\ breakout_high > 0 /\ row.close > breakout_high
                /\ 50 <= row.rsi14 /\ row.rsi14 <= 70
        THEN setup("breakout", bo_trigger, "Breakout above 20-day high")
        ELSE IF uptrend /\ near_ema20 /\ row.rsi14 > 45
        THEN setup("pullback", pb_trigger, "Pullback near EMA20")
        ELSE [action |-> "HOLD", rationale |-> "No swing entry setup", params |-> NoParams]

\* variant: the stop follows the close down as well as up
generate_exit_signal_Follow(row, trailing_stop, take_profit, holding_days, horizon_days) ==
    LET atr14 == Max(row.atr14, MinAtr)
        new_trailing == row.close - (3 * atr14) \div 2
    IN  IF holding_days > horizon_days
        THEN [action |-> "EXIT", rationale |-> "Time-stop reached", new_trailing_stop |-> new_trailing]
        ELSE IF row.close >= take_profit
        THEN [action |-> "EXIT", rationale |-> "Take-profit reached", new_trailing_stop |-> new_trailing]
        ELSE IF row.close < new_trailing
        THEN [action |-> "EXIT", rationale |-> "Close breached trailing stop", new_trailing_stop |-> new_trailing]
        ELSE [action |-> "HOLD", rationale |-> "Within exit bounds", new_trailing_stop |-> new_trailing]

\* variant: the take-profit is looked at before the time-stop
generate_exit_signal_PriceFirst(row, trailing_stop, take_profit, holding_days, horizon_days) ==
    LET atr14 == Max(row.atr14, MinAtr)
        new_trailing == Max(trailing_stop, row.close - (3 * atr14) \div 2)
    IN  IF row.close >= take_profit
        THEN [action |-> "EXIT", rationale |-> "Take-profit reached", new_trailing_stop |-> new_trailing]
        ELSE IF holding_days > horizon_days
        THEN [action |-> "EXIT", rationale |-> "Time-stop reached", new_trailing_stop |-> new_trailing]
        ELSE IF row.close < new_trailing
        THEN [action |-> "EXIT", rationale |-> "Close breached trailing stop", new_trailing_stop |-> new_trailing]
        ELSE [action |-> "HOLD", rationale |-> "Within exit bounds", new_trailing_stop |-> new_trailing]

generate_exit_signal(row, trailing_stop, take_profit, holding_days, horizon_days) ==
    LET atr14 == Max(row.atr14, MinAtr)
        new_trailing == Max(trailing_stop, row.close - (3 * atr14) \div 2)
    IN  IF holding_days > horizon_days
        THEN [action |-> "EXIT", rationale |-> "Time-stop reached", new_trailing_stop |-> new_trailing]
        ELSE IF row.close >= take_profit
        THEN [action |-> "EXIT", rationale |-> "Take-profit reached", new_trailing_stop |-> new_trailing]
        ELSE IF row.close < new_trailing
        THEN [action |-> "EXIT", rationale |-> "Close breached trailing stop", new_trailing_stop |-> new_trailing]
        ELSE [action |-> "HOLD", rationale |-> "Within exit bounds", new_trailing_stop |-> new_trailing]

---------------------------------------------------------------------------
(* GTTService.  mkt maps each symbol to the market row a fetch returns during
   the request; a row with ok = FALSE is a fetch that raises. *)

\* variant: the plan is marked GTT_PLACED but no order is created
place_entry_gtt_NoOrder(db, run_date, trade_plan_id, symbol, qty, trigger_price) ==
    update_trade_plan_status(db, trade_plan_id, "GTT_PLACED")

place_entry_gtt(db, run_date, trade_plan_id, symbol, qty, trigger_price) ==
    update_trade_plan_status(
        create_gtt_order(db, run_date, symbol, "BUY", qty, trigger_price, trade_plan_id),
        trade_plan_id, "GTT_PLACED")

\* the body of the loop of process_pending_buy_gtts for one pending order;
\* returns the database and whether the order was triggered
ProcessPendingGtt(db, gtt_id, run_date, mkt) ==
    LET gtt == db.gtts[gtt_id]
        latest == mkt[gtt.symbol]
        plan_id == gtt.linked_trade_plan_id
    IN  IF ~latest.ok
        THEN [db |-> [db EXCEPT !.raised = TRUE, !.fetchFailed = TRUE], triggered |-> FALSE]
        ELSE IF ~should_trigger("BUY", gtt.trigger_price, latest.high, latest.low)
        THEN [db |-> db, triggered |-> FALSE]
        ELSE IF plan_id \notin 1 .. Len(db.plans)
        THEN [db |-> update_gtt(db, gtt_id, None, "CANCELLED", None), triggered |-> FALSE]
        ELSE
        LET plan == db.plans[plan_id]
            db1 == execute_buy(db, plan_id, run_date, plan.symbol, plan.qty,
                               gtt.trigger_price, "SWING", "GTT_TRIGGER", gtt_id)
            db2 == update_gtt(db1, gtt_id, None, "TRIGGERED", gtt.trigger_price)
            opened == db2.plans[plan_id]
            trailing_stop == opened.stop_loss
            written == [opened EXCEPT !.trailing_stop = trailing_stop,
                                      !.gtt_sell_trigger = trailing_stop]
            db3 == LogWrite([db2 EXCEPT !.plans[plan_id] = written], plan_id, opened, written)
            db4 == create_gtt_order(db3, run_date, plan.symbol, "SELL", plan.qty,
                                    trailing_stop, plan_id)
        IN  IF db1.raised THEN [db |-> db1, triggered |-> FALSE]
            ELSE [db |-> db4, triggered |-> TRUE]

RECURSIVE PendingLoop(_, _, _, _, _)
PendingLoop(db, pending, run_date, mkt, triggered_count) ==
    IF pending = <<>> \/ db.raised
    THEN [db |-> db, count |-> triggered_count]
    ELSE LET r == ProcessPendingGtt(db, Head(pending), run_date, mkt)
         IN  PendingLoop(r.db, Tail(pending), run_date, mkt,
                         triggered_count + (IF r.triggered THEN 1 ELSE 0))

process_pending_buy_gtts(db, run_date, mkt) ==
    PendingLoop(db,
                SelectIds(Len(db.gtts),
                        {k \in 1 .. Len(db.gtts) :
                            LET g == db.gtts[k] IN g.status = "PENDING" /\ g.side = "BUY"}),
                run_date, mkt, 0)

\* _process_open_plan from the market exit on: the database after the sell attempt
OpenPlanMarketSold(res, plan_id) ==
    IF res.executed
    THEN [db |-> cancel_pending_gtt_for_plan(res.db, plan_id), closed |-> TRUE]
    ELSE [db |-> res.db, closed |-> FALSE]

\* _process_open_plan, the exit on the strategy's signal
OpenPlanExit(db, plan_id, run_date, latest, exit_signal) ==
    IF exit_signal.action = "EXIT"
    THEN OpenPlanMarketSold(
            execute_sell(db, plan_id, run_date, db.plans[plan_id].symbol,
                         db.plans[plan_id].qty, latest.close, "SWING", "MARKET", None),
            plan_id)
    ELSE [db |-> db, closed |-> FALSE]

\* _process_open_plan after the trailing-stop GTT fired and the sell was attempted
OpenPlanGttSold(res, plan_id, run_date, latest, exit_signal, pending_sell) ==
    IF res.executed
    THEN [db |-> cancel_pending_gtt_for_plan(
                    update_gtt(res.db, pending_sell, None, "TRIGGERED",
                               exit_signal.new_trailing_stop),
                    plan_id),
          closed |-> TRUE]
    ELSE OpenPlanExit(res.db, plan_id, run_date, latest, exit_signal)

\* variant: the strategy's EXIT is acted on before the order's trigger is looked at
OpenPlanSell_SignalFirst(db, plan_id, run_date, latest, exit_signal, pending_sell) ==
    IF pending_sell = 0 \/ exit_signal.action = "EXIT"
    THEN OpenPlanExit(update_gtt(db, pending_sell, exit_signal.new_trailing_stop, "", None),
                      plan_id, run_date, latest, exit_signal)
    ELSE IF should_trigger("SELL", exit_signal.new_trailing_stop, latest.close, latest.low)
    THEN OpenPlanGttSold(
            execute_sell(update_gtt(db, pending_sell, exit_signal.new_trailing_stop, "", None),
                         plan_id, run_date, db.plans[plan_id].symbol, db.plans[plan_id].qty,
                         exit_signal.new_trailing_stop, "SWING", "GTT_TRIGGER", pending_sell),
            plan_id, run_date, latest, exit_signal, pending_sell)
    ELSE OpenPlanExit(update_gtt(db, pending_sell, exit_signal.new_trailing_stop, "", None),
                      plan_id, run_date, latest, exit_signal)

\* _process_open_plan once the raised stop is committed; pending_sell is the id of
\* the plan's first PENDING SELL order, 0 for none
OpenPlanSell(db, plan_id, run_date, latest, exit_signal, pending_sell) ==
    IF pending_sell = 0
    THEN OpenPlanExit(db, plan_id, run_date, latest, exit_signal)
    ELSE IF should_trigger("SELL", exit_signal.new_trailing_stop, latest.close, latest.low)
    THEN OpenPlanGttSold(
            execute_sell(update_gtt(db, pending_sell, exit_signal.new_trailing_stop, "", None),
                         plan_id, run_date, db.plans[plan_id].symbol, db.plans[plan_id].qty,
                         exit_signal.new_trailing_stop, "SWING", "GTT_TRIGGER", pending_sell),
            plan_id, run_date, latest, exit_signal, pending_sell)
    ELSE OpenPlanExit(update_gtt(db, pending_sell, exit_signal.new_trailing_stop, "", None),
                      plan_id, run_date, latest, exit_signal)

\* _process_open_plan: the stop is raised and committed before any exit is tried
OpenPlanWrite(db, plan_id, run_date, latest, exit_signal) ==
    LET plan == db.plans[plan_id]
        written == [plan EXCEPT !.stop_loss = exit_signal.new_trailing_stop,
                                !.gtt_sell_trigger = exit_signal.new_trailing_stop,
                                !.trailing_stop = exit_signal.new_trailing_stop]
        sells == SelectIds(Len(db.gtts),
                    {k \in 1 .. Len(db.gtts) :
                        LET g == db.gtts[k]
                        IN  g.linked_trade_plan_id = plan_id /\ g.side = "SELL"
                                                             /\ g.status = "PENDING"})
    IN  OpenPlanSell(LogWrite([db EXCEPT !.plans[plan_id] = written], plan_id, plan, written),
                     plan_id, run_date, latest, exit_signal,
                     IF sells = <<>> THEN 0 ELSE sells[1])

\* returns the database and whether the position was closed; a failed fetch raises
\* before anything is written
_process_open_plan(db, plan_id, run_date, mkt) ==
    LET plan == db.plans[plan_id]
        latest == mkt[plan.symbol]
        holding_days == Max(0, run_date - plan.date)
        trailing == IF plan.trailing_stop # None THEN plan.trailing_stop ELSE plan.stop_loss
        horizon_days == IF plan.holding_horizon_days \in {None, 0}
                        THEN DefaultHorizon ELSE plan.holding_horizon_days
    IN  IF ~latest.ok THEN [db |-> db, closed |-> FALSE]
        ELSE OpenPlanWrite(db, plan_id, run_date, latest,
                           generate_exit_signal(latest, trailing, plan.take_profit,
                                                holding_days, horizon_days))

RECURSIVE OpenLoop(_, _, _, _, _)
OpenLoop(db, open_plans, run_date, mkt, executed) ==
    IF open_plans = <<>>
    THEN [db |-> db, count |-> executed]
    ELSE LET r == _process_open_plan(db, Head(open_plans), run_date, mkt)
         IN  OpenLoop(r.db, Tail(open_plans), run_date, mkt,
                      executed + (IF r.closed THEN 1 ELSE 0))

process_open_positions(db, run_date, mkt) ==
    OpenLoop(db, get_open_swing_plans(db), run_date, mkt, 0)

---------------------------------------------------------------------------
(* api/routes.py: the run of one mode for one date *)

WatchRows(wl, run_date, mode) == SubSeq(wl[<<run_date, mode>>], 1,
                                        Min(Len(wl[<<run_date, mode>>]), max_stocks_per_mode))

\* TrendService.analyze: the trend of the latest 5m candle
analyze_trend(row) ==
    IF row.close > row.sma20 /\ row.ema_up /\ row.rsi14 > 55 THEN "UPTREND"
    ELSE IF row.close < row.sma20 /\ ~row.ema_up /\ row.rsi14 < 45 THEN "DOWNTREND"
    ELSE "SIDEWAYS"

\* variant: a BUY sized to zero goes on to the open-position check and the fill
IntradaySymbol_NoQtyCheck(db, run_date, symbol, mkt) ==
    LET row == mkt[symbol]
        signal == intraday_generate_signal(analyze_trend(row), row.rsi14)
        latest_price == row.close
        db0 == get_or_create_budget(db, run_date, "INTRADAY")
        remaining == budget_remaining(db0, run_date, "INTRADAY")
        qty == CASE signal = "BUY" -> size_buy_qty(latest_price, remaining, "INTRADAY")
                 [] signal = "SELL" -> get_open_qty_for_symbol(db0, run_date, symbol)
                 [] OTHER -> 0
        db1 == create_trade_plan(db0,
                  TradePlanRow(run_date, symbol, signal, Max(qty, 0), latest_price,
                               IF signal = "BUY" THEN "Trend up" ELSE "Trend down",
                               "INTRADAY", "MARKET", None, None, None, None,
                               None, None, "PLANNED"))
        plan_id == Len(db1.plans)
    IN  IF ~row.ok \/ row.n < MinIntradayCandles THEN db
        ELSE IF signal = "HOLD"
        THEN log_no_trade(db0, run_date, symbol, "INTRADAY", "No clear directional edge",
                          latest_price)
        ELSE IF signal = "BUY"
        THEN IF ~can_open_new_position(db1, run_date, "INTRADAY")
             THEN update_trade_plan_status(db1, plan_id, "CANCELLED")
             ELSE execute_buy(db1, plan_id, run_date, symbol, qty, latest_price,
                              "INTRADAY", "MARKET", None)
        ELSE execute_sell(db1, plan_id, run_date, symbol, Max(qty, 0), latest_price,
                          "INTRADAY", "MARKET", None).db

\* the body of the loop of _run_intraday for one watchlist symbol
IntradaySymbol(db, run_date, symbol, mkt) ==
    LET row == mkt[symbol]
        signal == intraday_generate_signal(analyze_trend(row), row.rsi14)
        latest_price == row.close
        db0 == get_or_create_budget(db, run_date, "INTRADAY")
        remaining == budget_remaining(db0, run_date, "INTRADAY")
        qty == CASE signal = "BUY" -> size_buy_qty(latest_price, remaining, "INTRADAY")
                 [] signal = "SELL" -> get_open_qty_for_symbol(db0, run_date, symbol)
                 [] OTHER -> 0
        db1 == create_trade_plan(db0,
                  TradePlanRow(run_date, symbol, signal, Max(qty, 0), latest_price,
                               IF signal = "BUY" THEN "Trend up" ELSE "Trend down",
                               "INTRADAY", "MARKET", None, None, None, None,
                               None, None, "PLANNED"))
        plan_id == Len(db1.plans)
    IN  IF ~row.ok \/ row.n < MinIntradayCandles THEN db
        ELSE IF signal = "HOLD"
        THEN log_no_trade(db0, run_date, symbol, "INTRADAY", "No clear directional edge",
                          latest_price)
        ELSE IF signal = "BUY"
        THEN IF qty <= 0 \/ ~can_open_new_position(db1, run_date, "INTRADAY")
             THEN update_trade_plan_status(db1, plan_id, "CANCELLED")
             ELSE execute_buy(db1, plan_id, run_date, symbol, qty, latest_price,
                              "INTRADAY", "MARKET", None)
        ELSE execute_sell(db1, plan_id, run_date, symbol, Max(qty, 0), latest_price,
                          "INTRADAY", "MARKET", None).db

RECURSIVE IntradayLoop(_, _, _, _)
IntradayLoop(db, rows, run_date, mkt) ==
    IF rows = <<>> \/ db.raised THEN db
    ELSE IntradayLoop(IntradaySymbol(db, run_date, Head(rows).symbol, mkt),
                      Tail(rows), run_date, mkt)

\* the summary's remaining_budget, read once the loop over the symbols is through;
\* no response is built while an exception propagates
get_or_create_budget_unless_raised(db, run_date, mode) ==
    IF db.raised THEN db ELSE get_or_create_budget(db, run_date, mode)

\* returns the database; the response is returned unless an exception propagated
_run_intraday(db, wl, run_date, mkt) ==
    get_or_create_budget_unless_raised(
        IntradayLoop(db, WatchRows(wl, run_date, "INTRADAY"), run_date, mkt),
        run_date, "INTRADAY")

\* variant: a plan whose GTT is still waiting does not count as active
active_swing_plans_OpenOnly(db, symbol) ==
    SelectIds(Len(db.plans),
            {k \in 1 .. Len(db.plans) :
                LET p == db.plans[k] IN p.symbol = symbol /\ p.mode = "SWING" /\ p.status = "OPEN"})

\* the select of _run_swing for the symbol's plans in GTT_PLACED or OPEN (any date)
active_swing_plans(db, symbol) ==
    SelectIds(Len(db.plans),
            {k \in 1 .. Len(db.plans) :
                LET p == db.plans[k] IN p.symbol = symbol /\ p.mode = "SWING" /\ p.status \in {"GTT_PLACED", "OPEN"}})

\* the body of the entry loop of _run_swing for one watchlist row
SwingSymbol(db, run_date, wrow, mkt) ==
    LET symbol == wrow.symbol
        horizon_days == IF wrow.horizon_days \in {None, 0} THEN DefaultHorizon
                        ELSE wrow.horizon_days
        row == mkt[symbol]
        swing_signal == swing_generate_signal(row)
        price_ref == row.close
        active == active_swing_plans(db, symbol)
        trigger == swing_signal.params.gtt_buy_trigger
        db0 == get_or_create_budget(db, run_date, "SWING")
        qty == size_buy_qty(trigger, budget_remaining(db0, run_date, "SWING"), "SWING")
        db1 == create_trade_plan(db0,
                  TradePlanRow(run_date, symbol, "BUY", qty, trigger, swing_signal.rationale,
                               "SWING", "GTT", swing_signal.params.stop_loss,
                               swing_signal.params.take_profit, trigger,
                               swing_signal.params.stop_loss, horizon_days,
                               swing_signal.params.stop_loss, "GTT_PLACED"))
    IN  IF ~row.ok \/ row.n < MinSwingCandles THEN db
        ELSE IF swing_signal.action # "BUY_SETUP"
        THEN log_no_trade(db, run_date, symbol, "SWING", swing_signal.rationale, price_ref)
        ELSE IF Len(active) > 1          \* scalar_one_or_none: MultipleResultsFound
        THEN [db EXCEPT !.raised = TRUE]
        ELSE IF Len(active) = 1
        THEN log_no_trade(db, run_date, symbol, "SWING", "Active swing plan already exists",
                          price_ref)
        ELSE IF ~can_open_new_position(db, run_date, "SWING")
        THEN log_no_trade(db, run_date, symbol, "SWING", "Max open swing positions reached",
                          price_ref)
        ELSE IF qty <= 0
        THEN log_no_trade(db0, run_date, symbol, "SWING",
                          "Qty became zero under swing allocation", trigger)
        ELSE place_entry_gtt(db1, run_date, Len(db1.plans), symbol, qty, trigger)

RECURSIVE SwingLoop(_, _, _, _)
SwingLoop(db, rows, run_date, mkt) ==
    IF rows = <<>> \/ db.raised THEN db
    ELSE SwingLoop(SwingSymbol(db, run_date, Head(rows), mkt), Tail(rows), run_date, mkt)

\* _run_swing from the entry loop on
SwingEntries(db, rows, run_date, mkt) ==
    get_or_create_budget_unless_raised(SwingLoop(db, rows, run_date, mkt), run_date, "SWING")

\* _run_swing once the pending BUY orders are processed
SwingExits(db, rows, run_date, mkt) ==
    IF db.raised THEN db
    ELSE SwingEntries(process_open_positions(db, run_date, mkt).db, rows, run_date, mkt)

_run_swing(db, wl, run_date, mkt) ==
    IF WatchRows(wl, run_date, "SWING") = <<>>
    THEN get_or_create_budget(db, run_date, "SWING")
    ELSE SwingExits(process_pending_buy_gtts(db, run_date, mkt).db,
                    WatchRows(wl, run_date, "SWING"), run_date, mkt)

\* POST /api/watchlist: JournalService.add_watchlist after the route's checks.  The
\* session does not autoflush, so a symbol repeated in one request is added twice
\* and the commit fails on the unique constraint: nothing is inserted.
add_watchlist(wl, run_date, symbols, mode, horizon_days) ==
    LET key == <<run_date, mode>>
        have == {wl[key][i].symbol : i \in 1 .. Len(wl[key])}
        fresh == SelectIds(Len(symbols),
                {k \in 1 .. Len(symbols) :
                    LET x == symbols[k] IN x \notin have})
        rows == [i \in 1 .. Len(fresh) |->
                    [symbol |-> symbols[fresh[i]], horizon_days |-> horizon_days]]
    IN  IF Cardinality({symbols[fresh[i]] : i \in 1 .. Len(fresh)}) # Len(fresh) THEN wl
        ELSE [wl EXCEPT ![key] = @ \o rows]

---------------------------------------------------------------------------
(* IntradayPaperPortfolioService (tick-based ledger).  Quantities are
   centi-shares: qty x price / 100 is an amount in pips. *)

NoDayBudget == [exists |-> FALSE, budget_total |-> 0, used |-> 0, remaining |-> 0]

get_or_create_day_budget(tb, run_date, budget_total) ==
    IF tb.dayBudget[run_date].exists THEN tb
    ELSE [tb EXCEPT !.dayBudget[run_date] =
            [exists |-> TRUE, budget_total |-> budget_total, used |-> 0,
             remaining |-> budget_total]]

get_open_positions(tb, run_date) ==
    {i \in 1 .. Len(tb.positions) :
        tb.positions[i].date = run_date /\ tb.positions[i].status = "OPEN"}

get_open_position_for_symbol(tb, run_date, symbol) ==
    {i \in get_open_positions(tb, run_date) : tb.positions[i].symbol = symbol}

count_open_positions(tb, run_date) == Cardinality(get_open_positions(tb, run_date))

\* variant: only the entries of positions still OPEN are counted
entries_for_symbol_OpenOnly(tb, run_date, symbol) ==
    Cardinality({i \in 1 .. Len(tb.ptxs) :
        /\ tb.ptxs[i].side = "BUY"
        /\ tb.positions[tb.ptxs[i].position_id].date = run_date
        /\ tb.positions[tb.ptxs[i].position_id].symbol = symbol
        /\ tb.positions[tb.ptxs[i].position_id].status = "OPEN"})

entries_for_symbol(tb, run_date, symbol) ==
    Cardinality({i \in 1 .. Len(tb.ptxs) :
        /\ tb.ptxs[i].side = "BUY"
        /\ tb.positions[tb.ptxs[i].position_id].date = run_date
        /\ tb.positions[tb.ptxs[i].position_id].symbol = symbol})

\* round(cash / price, 6), at the model's centi-share grain
qty_from_cash(price, cash) ==
    IF price <= 0 \/ cash <= 0 THEN 0 ELSE RoundDiv(cash * 100, price)

\* the budget row is created by the caller before it asks for an allocation
allocation_for_new_position(tb, run_date, max_pos) ==
    LET slots_left == Max(1, max_pos - count_open_positions(tb, run_date))
        available == tb.dayBudget[run_date].remaining
    IN  IF available <= 0 THEN 0 ELSE Round4(available, slots_left)

open_position(tb, run_date, symbol, qty, price, stop_price, target_price) ==
    LET tb1 == [tb EXCEPT
                  !.positions = Append(@, [date |-> run_date, symbol |-> symbol,
                                           status |-> "OPEN", entry_price |-> price,
                                           qty |-> qty, pnl |-> 0, exit_price |-> None,
                                           stop_price |-> stop_price,
                                           target_price |-> target_price]),
                  !.ptxs = Append(@, [position_id |-> Len(tb.positions) + 1, side |-> "BUY",
                                      qty |-> qty, price |-> price])]
        budget == tb.dayBudget[run_date]
    IN  IF ~budget.exists THEN tb1
        ELSE [tb1 EXCEPT !.dayBudget[run_date] =
                [budget EXCEPT !.used = Round4(budget.used * 100 + qty * price, 100),
                               !.remaining = Round4(budget.remaining * 100 - qty * price, 100)]]

\* variant: a sale returns what the shares cost, not what they fetched
close_position_CostBack(tb, position_id, qty, price) ==
    LET position == tb.positions[position_id]
        sell_qty == Min(qty, position.qty)
        proceeds == Round4(sell_qty * position.entry_price, 100)
        realized_pnl == Round4((price - position.entry_price) * sell_qty, 100)
        left == position.qty - sell_qty
        sold == [position EXCEPT !.qty = left, !.pnl = @ + realized_pnl]
        closed == IF left <= 0
                  THEN [sold EXCEPT !.status = "CLOSED", !.qty = 0, !.exit_price = price]
                  ELSE sold
        budget == tb.dayBudget[position.date]
        tb1 == [tb EXCEPT
                  !.positions[position_id] = closed,
                  !.ptxs = Append(@, [position_id |-> position_id, side |-> "SELL",
                                      qty |-> sell_qty, price |-> price])]
    IN  IF sell_qty <= 0 THEN tb
        ELSE IF ~budget.exists THEN tb1
        ELSE [tb1 EXCEPT !.dayBudget[position.date] =
                [budget EXCEPT !.used = Round4(Max(0, budget.used - proceeds), 1),
                               !.remaining = Round4(budget.remaining + proceeds, 1)]]

\* variant: the whole requested quantity is sold
close_position_Oversell(tb, position_id, qty, price) ==
    LET position == tb.positions[position_id]
        sell_qty == qty
        proceeds == Round4(sell_qty * price, 100)
        realized_pnl == Round4((price - position.entry_price) * sell_qty, 100)
        left == position.qty - sell_qty
        sold == [position EXCEPT !.qty = left, !.pnl = @ + realized_pnl]
        closed == IF left <= 0
                  THEN [sold EXCEPT !.status = "CLOSED", !.exit_price = price]
                  ELSE sold
        budget == tb.dayBudget[position.date]
        tb1 == [tb EXCEPT
                  !.positions[position_id] = closed,
                  !.ptxs = Append(@, [position_id |-> position_id, side |-> "SELL",
                                      qty |-> sell_qty, price |-> price])]
    IN  IF sell_qty <= 0 THEN tb
        ELSE IF ~budget.exists THEN tb1
        ELSE [tb1 EXCEPT !.dayBudget[position.date] =
                [budget EXCEPT !.used = Round4(Max(0, budget.used - proceeds), 1),
                               !.remaining = Round4(budget.remaining + proceeds, 1)]]

close_position(tb, position_id, qty, price) ==
    LET position == tb.positions[position_id]
        sell_qty == Min(qty, position.qty)
        proceeds == Round4(sell_qty * price, 100)
        realized_pnl == Round4((price - position.entry_price) * sell_qty, 100)
        left == position.qty - sell_qty
        sold == [position EXCEPT !.qty = left, !.pnl = @ + realized_pnl]
        closed == IF left <= 0
                  THEN [sold EXCEPT !.status = "CLOSED", !.qty = 0, !.exit_price = price]
                  ELSE sold
        budget == tb.dayBudget[position.date]
        tb1 == [tb EXCEPT
                  !.positions[position_id] = closed,
                  !.ptxs = Append(@, [position_id |-> position_id, side |-> "SELL",
                                      qty |-> sell_qty, price |-> price])]
    IN  IF sell_qty <= 0 THEN tb
        ELSE IF ~budget.exists THEN tb1
        ELSE [tb1 EXCEPT !.dayBudget[position.date] =
                [budget EXCEPT !.used = Round4(Max(0, budget.used - proceeds), 1),
                               !.remaining = Round4(budget.remaining + proceeds, 1)]]

---------------------------------------------------------------------------
(* MomentumSignalService, RebalanceService and the run-tick handler.
   A snapshot is [ok, close, score, buy_condition]; ok = FALSE stands for
   analyze_symbol raising. *)

compute_risk_prices(entry_price, stop, target) ==
    [stop_price |-> Round4(entry_price * (1000 - stop), 1000),
     target_price |-> Round4(entry_price * (1000 + target), 1000)]

should_buy(snapshot) == snapshot.buy_condition

should_sell(last_price, stop_price, target_price, after_time_exit) ==
    last_price <= stop_price \/ last_price >= target_price \/ after_time_exit

\* the improvement in percent, as the fraction num / den
_improvement_pct(best_score, weakest_score) ==
    IF weakest_score <= 0
    THEN [num |-> IF best_score > 0 THEN 100 ELSE 0, den |-> 1]
    ELSE [num |-> (best_score - weakest_score) * 100, den |-> weakest_score]

\* sorted(..., key=score, reverse=True) is stable: insert behind every item
\* whose score is not smaller
RECURSIVE InsertRanked(_, _, _)
InsertRanked(ranked, symbol, snaps) ==
    IF ranked = <<>> THEN <<symbol>>
    ELSE IF snaps[Head(ranked)].score >= snaps[symbol].score
         THEN <<Head(ranked)>> \o InsertRanked(Tail(ranked), symbol, snaps)
         ELSE <<symbol>> \o ranked

RECURSIVE RankedForRebalance(_, _)
RankedForRebalance(symbols, snaps) ==
    IF symbols = <<>> THEN <<>>
    ELSE LET front == RankedForRebalance(SubSeq(symbols, 1, Len(symbols) - 1), snaps)
             symbol == symbols[Len(symbols)]
         IN  IF snaps[symbol].ok THEN InsertRanked(front, symbol, snaps) ELSE front

\* score_by_symbol.get(symbol, 0.0)
ScoreOf(ranked_items, snaps, symbol) ==
    IF \E k \in 1 .. Len(ranked_items) : ranked_items[k] = symbol
    THEN snaps[symbol].score ELSE 0

\* variant: of the positions of the lowest score, the one entered last
Weakest_Latest(tb, open_positions, ranked_items, snaps) ==
    LET score(i) == ScoreOf(ranked_items, snaps, tb.positions[open_positions[i]].symbol)
        k == CHOOSE k \in 1 .. Len(open_positions) :
                /\ \A j \in 1 .. Len(open_positions) : score(k) <= score(j)
                /\ \A j \in k + 1 .. Len(open_positions) : score(j) > score(k)
    IN  open_positions[k]

\* min(open_positions, key=score): the first of the lowest score
Weakest(tb, open_positions, ranked_items, snaps) ==
    LET score(i) == ScoreOf(ranked_items, snaps, tb.positions[open_positions[i]].symbol)
        k == CHOOSE k \in 1 .. Len(open_positions) :
                /\ \A j \in 1 .. Len(open_positions) : score(k) <= score(j)
                /\ \A j \in 1 .. k - 1 : score(j) > score(k)
    IN  open_positions[k]

\* max(candidates, key=score): the first of the highest score
BestCandidate(candidates, snaps) ==
    LET k == CHOOSE k \in 1 .. Len(candidates) :
                /\ \A j \in 1 .. Len(candidates) :
                        snaps[candidates[k]].score >= snaps[candidates[j]].score
                /\ \A j \in 1 .. k - 1 :
                        snaps[candidates[j]].score < snaps[candidates[k]].score
    IN  candidates[k]

\* a row of trade_decisions as the rebalancer writes it
TradeDecision(symbol, action, intended_qty, intended_price) ==
    [symbol |-> symbol, action |-> action, intended_qty |-> intended_qty,
     intended_price |-> intended_price]

\* variant: the candidate is bought whatever its entries of the day
RebalanceBuy_IgnoresCap(tb, run_date, best, buy_price, proceeds) ==
    LET buy_qty == qty_from_cash(buy_price, proceeds)
        risk == compute_risk_prices(buy_price, stop_pct, target_pct)
    IN  IF proceeds <= 0 THEN [tb |-> tb, actions |-> 1, decisions |-> <<>>]
        ELSE IF buy_qty <= 0 THEN [tb |-> tb, actions |-> 1, decisions |-> <<>>]
        ELSE [tb |-> open_position(tb, run_date, best, buy_qty, buy_price,
                                   risk.stop_price, risk.target_price),
              actions |-> 2,
              decisions |-> <<TradeDecision(best, "BUY", buy_qty, buy_price)>>]

\* the buy leg of a rebalance, funded by the proceeds of its sell leg; returns
\* the ledger, the number of legs executed and the decisions written
RebalanceBuy(tb, run_date, best, buy_price, proceeds) ==
    LET buy_qty == qty_from_cash(buy_price, proceeds)
        risk == compute_risk_prices(buy_price, stop_pct, target_pct)
    IN  IF proceeds <= 0 THEN [tb |-> tb, actions |-> 1, decisions |-> <<>>]
        ELSE IF entries_for_symbol(tb, run_date, best) >= max_entries_per_symbol_per_day
        THEN [tb |-> tb, actions |-> 1, decisions |-> <<>>]
        ELSE IF buy_qty <= 0 THEN [tb |-> tb, actions |-> 1, decisions |-> <<>>]
        ELSE [tb |-> open_position(tb, run_date, best, buy_qty, buy_price,
                                   risk.stop_price, risk.target_price),
              actions |-> 2,
              decisions |-> <<TradeDecision(best, "BUY", buy_qty, buy_price)>>]

\* the sell leg: the weakest position goes at its snapshot's close, or at its
\* own entry price when it has no snapshot
RebalanceSell(tb, run_date, weakest, best, fraction, snaps) ==
    LET position == tb.positions[weakest]
        sell_snapshot == snaps[position.symbol]
        sell_price == IF sell_snapshot.ok THEN sell_snapshot.close ELSE position.entry_price
        sell_qty == RoundDiv(position.qty * fraction, 100)
        proceeds == Round4(Min(sell_qty, position.qty) * sell_price, 100)
        bought == RebalanceBuy(close_position(tb, weakest, sell_qty, sell_price),
                               run_date, best, snaps[best].close, proceeds)
    IN  IF sell_qty <= 0 THEN [tb |-> tb, actions |-> 0, decisions |-> <<>>]
        ELSE [bought EXCEPT !.decisions =
                <<TradeDecision(position.symbol, "SELL", sell_qty, sell_price)>> \o @]

\* variant: a partial rebalance goes ahead with every slot taken
RebalanceDecide_NoCountGuard(tb, run_date, open_positions, weakest, best, improvement, snaps) ==
    IF improvement.num <= rebalance_partial_threshold * improvement.den
    THEN [tb |-> tb, actions |-> 0, decisions |-> <<>>]
    ELSE IF improvement.num > rebalance_full_threshold * improvement.den
    THEN RebalanceSell(tb, run_date, weakest, best, 100, snaps)
    ELSE RebalanceSell(tb, run_date, weakest, best, rebalance_partial_fraction, snaps)

\* variant: an improvement at or below the partial threshold is acted on as a
\* partial one
RebalanceDecide_NoFloor(tb, run_date, open_positions, weakest, best, improvement, snaps) ==
    IF improvement.num > rebalance_full_threshold * improvement.den
    THEN RebalanceSell(tb, run_date, weakest, best, 100, snaps)
    ELSE IF Len(open_positions) >= max_positions
    THEN [tb |-> tb, actions |-> 0, decisions |-> <<>>]
    ELSE RebalanceSell(tb, run_date, weakest, best, rebalance_partial_fraction, snaps)

\* variant: a full replace sells the partial fraction too
RebalanceDecide_HalfOnly(tb, run_date, open_positions, weakest, best, improvement, snaps) ==
    IF improvement.num <= rebalance_partial_threshold * improvement.den
    THEN [tb |-> tb, actions |-> 0, decisions |-> <<>>]
    ELSE IF improvement.num > rebalance_full_threshold * improvement.den
    THEN RebalanceSell(tb, run_date, weakest, best, rebalance_partial_fraction, snaps)
    ELSE IF Len(open_positions) >= max_positions
    THEN [tb |-> tb, actions |-> 0, decisions |-> <<>>]
    ELSE RebalanceSell(tb, run_date, weakest, best, rebalance_partial_fraction, snaps)

RebalanceDecide(tb, run_date, open_positions, weakest, best, improvement, snaps) ==
    IF improvement.num <= rebalance_partial_threshold * improvement.den
    THEN [tb |-> tb, actions |-> 0, decisions |-> <<>>]
    ELSE IF improvement.num > rebalance_full_threshold * improvement.den
    THEN RebalanceSell(tb, run_date, weakest, best, 100, snaps)
    ELSE IF Len(open_positions) >= max_positions
    THEN [tb |-> tb, actions |-> 0, decisions |-> <<>>]
    ELSE RebalanceSell(tb, run_date, weakest, best, rebalance_partial_fraction, snaps)

RebalanceCompare(tb, run_date, open_positions, candidates, ranked_items, snaps) ==
    LET weakest == Weakest(tb, open_positions, ranked_items, snaps)
        best == BestCandidate(candidates, snaps)
    IN  RebalanceDecide(tb, run_date, open_positions, weakest, best,
            _improvement_pct(snaps[best].score,
                             ScoreOf(ranked_items, snaps, tb.positions[weakest].symbol)),
            snaps)

\* RebalanceService.apply; returns the ledger, the number of legs executed and
\* the decisions written
apply(tb, run_date, ranked_items, snaps) ==
    LET open_positions == SelectIds(Len(tb.positions), get_open_positions(tb, run_date))
        held_symbols == {tb.positions[open_positions[i]].symbol :
                            i \in 1 .. Len(open_positions)}
        Candidate(symbol) == symbol \notin held_symbols /\ snaps[symbol].buy_condition
        candidates == SelectSeq(ranked_items, Candidate)
    IN  IF open_positions = <<>> \/ candidates = <<>>
        THEN [tb |-> tb, actions |-> 0, decisions |-> <<>>]
        ELSE RebalanceCompare(tb, run_date, open_positions, candidates, ranked_items,
                              snaps)

\* run_tick, exit pass for one open position.  st = [tb, snaps]; again is
\* what a second analyze_symbol returns for a symbol whose first one failed.
TickExit(st, position_id, again, after_time_exit) ==
    LET position == st.tb.positions[position_id]
        snapshot == IF st.snaps[position.symbol].ok THEN st.snaps[position.symbol]
                    ELSE again[position.symbol]
    IN  IF ~snapshot.ok THEN st
        ELSE IF should_sell(snapshot.close, position.stop_price, position.target_price,
                            after_time_exit)
        THEN [tb |-> close_position(st.tb, position_id, position.qty, snapshot.close),
              snaps |-> [st.snaps EXCEPT ![position.symbol] = snapshot]]
        ELSE [tb |-> st.tb, snaps |-> [st.snaps EXCEPT ![position.symbol] = snapshot]]

RECURSIVE TickExitLoop(_, _, _, _)
TickExitLoop(st, open_positions, again, after_time_exit) ==
    IF open_positions = <<>> THEN st
    ELSE TickExitLoop(TickExit(st, Head(open_positions), again, after_time_exit),
                      Tail(open_positions), again, after_time_exit)

\* run_tick, entry pass for one symbol of the day's selection
TickEntry(tb, run_date, symbol, snapshot, open_symbols, after_time_exit) ==
    LET qty == qty_from_cash(snapshot.close,
                             allocation_for_new_position(tb, run_date, max_positions))
        risk == compute_risk_prices(snapshot.close, stop_pct, target_pct)
    IN  IF ~snapshot.ok THEN tb
        ELSE IF symbol \in open_symbols THEN tb
        ELSE IF after_time_exit THEN tb
        ELSE IF entries_for_symbol(tb, run_date, symbol) >= max_entries_per_symbol_per_day
        THEN tb
        ELSE IF count_open_positions(tb, run_date) >= max_positions THEN tb
        ELSE IF ~should_buy(snapshot) THEN tb
        ELSE IF qty <= 0 THEN tb
        ELSE open_position(tb, run_date, symbol, qty, snapshot.close,
                           risk.stop_price, risk.target_price)

RECURSIVE TickEntryLoop(_, _, _, _, _, _)
TickEntryLoop(tb, run_date, symbols, snaps, open_symbols, after_time_exit) ==
    IF symbols = <<>> THEN tb
    ELSE TickEntryLoop(TickEntry(tb, run_date, Head(symbols), snaps[Head(symbols)],
                                 open_symbols, after_time_exit),
                       run_date, Tail(symbols), snaps, open_symbols, after_time_exit)

TickRebalance(tb, run_date, ranked_items, snaps, after_time_exit) ==
    IF after_time_exit \/ ranked_items = <<>>
    THEN [tb |-> tb, actions |-> 0, decisions |-> <<>>]
    ELSE apply(tb, run_date, ranked_items, snaps)

TickEntries(st, run_date, symbols, after_time_exit) ==
    TickRebalance(
        TickEntryLoop(st.tb, run_date, symbols, st.snaps,
                      {st.tb.positions[i].symbol : i \in get_open_positions(st.tb, run_date)},
                      after_time_exit),
        run_date, RankedForRebalance(symbols, st.snaps), st.snaps, after_time_exit)

\* run_tick on a trading day; returns the ledger, the symbols that ended the
\* tick without a snapshot and what the rebalancer returned
run_tick(tb, run_date, symbols, snaps, again, after_time_exit) ==
    LET tb0 == get_or_create_day_budget(tb, run_date, budget_daily_inr)
        st == TickExitLoop([tb |-> tb0, snaps |-> snaps],
                           SelectIds(Len(tb0.positions), get_open_positions(tb0, run_date)),
                           again, after_time_exit)
        done == TickEntries(st, run_date, symbols, after_time_exit)
    IN  [tb |-> done.tb, missing |-> {s \in DOMAIN snaps : ~st.snaps[s].ok},
         rebalance_actions |-> done.actions]

\* variant: a position whose market data cannot be fetched is left open
ExitPosition_SkipOnFailure(tb, position_id, snaps) ==
    LET position == tb.positions[position_id]
    IN  IF snaps[position.symbol].ok
        THEN close_position(tb, position_id, position.qty, snaps[position.symbol].close)
        ELSE tb

\* exit_day past its weekend check, for one open position
ExitPosition(tb, position_id, snaps) ==
    LET position == tb.positions[position_id]
        price == IF snaps[position.symbol].ok THEN snaps[position.symbol].close
                 ELSE position.entry_price
    IN  close_position(tb, position_id, position.qty, price)

RECURSIVE ExitLoop(_, _, _)
ExitLoop(tb, open_positions, snaps) ==
    IF open_positions = <<>> THEN tb
    ELSE ExitLoop(ExitPosition(tb, Head(open_positions), snaps), Tail(open_positions),
                  snaps)

\* returns the ledger and closed_positions
exit_day(tb, run_date, snaps) ==
    LET open_positions == SelectIds(Len(tb.positions), get_open_positions(tb, run_date))
    IN  [tb |-> ExitLoop(tb, open_positions, snaps), closed |-> Len(open_positions)]

---------------------------------------------------------------------------
(* The trading calendar and the day plan.  A date is a day number; Day1 is a
   Monday.  A day_plan row is kept with the number of its selections and
   whether its universe snapshot is saved. *)

\* date.weekday(): Monday is 0
weekday(run_date) == (run_date - Day1) % 7

\* variant: Saturday is a trading day
_is_weekend_SundayOnly(run_date) == weekday(run_date) >= 6

_is_weekend(run_date) == weekday(run_date) >= 5

RECURSIVE _next_weekday(_)
_next_weekday(run_date) ==
    IF _is_weekend(run_date) THEN _next_weekday(run_date + 1) ELSE run_date

Saturday == Day1 + 5
Sunday == Day1 + 6
\* the dates of requests, and the dates they may plan
CalendarDates == {Day1, Saturday, Sunday}
PlanDates == CalendarDates \cup {Day1 + 7}

NoDayPlan == [exists |-> FALSE, universe |-> FALSE, selections |-> 0]

\* a new row, or the row there is; force_replan deletes its selections and its
\* universe snapshot
upsert_day_plan(dp, run_date, force_replan) ==
    IF ~dp[run_date].exists THEN [dp EXCEPT ![run_date].exists = TRUE]
    ELSE IF force_replan
    THEN [dp EXCEPT ![run_date].universe = FALSE, ![run_date].selections = 0]
    ELSE dp

\* with a sector and a universe configured
_plan_day_internal(dp, run_date, force_replan, ranked) ==
    LET dp1 == [upsert_day_plan(dp, run_date, force_replan) EXCEPT
                    ![run_date].universe = TRUE]
    IN  IF ranked THEN [dp1 EXCEPT ![run_date].selections = @ + 1] ELSE dp1

\* run_tick plans the day unless it finds a plan with a selection
PlanForTick(dp, run_date) ==
    IF dp[run_date].exists /\ dp[run_date].selections > 0 THEN dp
    ELSE _plan_day_internal(dp, run_date, FALSE, TRUE)

---------------------------------------------------------------------------
(* Inputs: what the market data provider returns, and the requests *)

INR(x) == x * Pip

DailyRow(n, high, low, close, atr14, sma50, prev_sma50, ema20, rsi14, high20) ==
    [ok |-> TRUE, n |-> n, high |-> high, low |-> low, close |-> close, atr14 |-> atr14,
     sma50 |-> sma50, prev_sma50 |-> prev_sma50, ema20 |-> ema20, rsi14 |-> rsi14,
     high20 |-> high20]

DailyFail == [DailyRow(0, 0, 0, 0, 0, 0, 0, 0, 0, 0) EXCEPT !.ok = FALSE]
\* close above the 20-day high of 100.0005 in an uptrend: BUY_SETUP at 100.2005
DailyBreakout == DailyRow(70, INR(103), INR(100), INR(102), INR(2), INR(95), INR(94),
                          INR(99), 58, INR(100) + 5)
\* a wide candle: high above the entry trigger, low below the stop
DailyWhipsaw == DailyRow(70, INR(103), INR(96), INR(98), INR(2), INR(95), INR(94),
                         INR(99), 40, INR(100) + 5)
\* close above the take-profit, low above the trailing stop
DailyRally == DailyRow(70, INR(106), INR(104) + 5000, INR(105), INR(2), INR(95), INR(94),
                       INR(99), 75, INR(100) + 5)

\* a narrow candle closing near the EMA20 in an uptrend: BUY_SETUP at 99.5995
DailyPullback == DailyRow(70, INR(100), INR(98) + 5000, INR(99) + 5000, INR(2), INR(95),
                          INR(94), INR(99), 50, INR(100) + 5)

DailyRows == {DailyFail, DailyBreakout, DailyWhipsaw, DailyRally, DailyPullback}

CandleRow(n, close, sma20, ema_up, rsi14) ==
    [ok |-> TRUE, n |-> n, close |-> close, sma20 |-> sma20, ema_up |-> ema_up,
     rsi14 |-> rsi14]

CandleFail == [CandleRow(0, 0, 0, FALSE, 0) EXCEPT !.ok = FALSE]
CandleUp == CandleRow(30, INR(30) + 33, INR(29), TRUE, 60)
CandleDown == CandleRow(30, INR(28), INR(29), FALSE, 40)
CandleFlat == CandleRow(30, INR(29), INR(29), TRUE, 50)

\* a downtrend candle closing where CandleUp closed
CandleBack == CandleRow(30, INR(30) + 33, INR(31), FALSE, 40)

CandleRows == {CandleFail, CandleUp, CandleDown, CandleFlat, CandleBack}

TickPrices == {INR(20), INR(25), INR(30)}

Snapshot(close, score, buy_condition) ==
    [ok |-> TRUE, close |-> close, score |-> score, buy_condition |-> buy_condition]

SnapFail == [Snapshot(0, 0, FALSE) EXCEPT !.ok = FALSE]
SnapBuy == Snapshot(INR(20), 80, TRUE)
SnapBuyLow == Snapshot(INR(20), 68, TRUE)
SnapHold == Snapshot(INR(20), 40, FALSE)
\* below the stop of a position entered at 20
SnapStop == Snapshot(INR(19), 20, FALSE)

Snapshots == {SnapFail, SnapBuy, SnapBuyLow, SnapHold, SnapStop}

CalendarSnapshots == {SnapFail, SnapBuy, SnapStop}

\* a snapshot quoting no price for a symbol whose buy condition holds
SnapZero == Snapshot(0, 80, TRUE)

\* the day's selection (top symbols of the day plan), in rank order
TickSymbols == <<"A", "B">>

\* a selection with more symbols than positions may be open
RebalanceSelection == <<"A", "B", "C">>
RebalanceSymbols == {"A", "B", "C"}
\* at one price, so that a position leaves by the time exit or a rebalance only
RebalanceSnapshots == {SnapBuy, SnapBuyLow, SnapHold}

\* horizon_days of a watchlist request: absent, or the smallest the route accepts
Horizons == {None, 5}

\* the symbol lists of a watchlist request
SymbolLists == UNION {[1 .. k -> Symbols] : k \in 1 .. MaxWatch}

---------------------------------------------------------------------------
(* The state machine *)

---------------------------------------------------------------------------
(* services/top_stocks_audit_service.py and top_stocks_cleanup_scheduler.py.
   A row of top_stock_audit is [date, mode, rank]. *)

audit_retention_days == 15

\* _replace_mode_rows for each of the modes, with the n ranked rows of one
\* set of metrics
refresh_modes(rows, run_date, modes, n) ==
    {r \in rows : ~(r.date = run_date /\ r.mode \in modes)}
        \cup {[date |-> run_date, mode |-> m, rank |-> k] : m \in modes, k \in 1 .. n}

cleanup_expired_Inclusive(rows, today, retention_days) ==
    {r \in rows : ~(r.date <= today - Max(1, retention_days))}

\* DELETE FROM top_stock_audit WHERE date < cutoff
cleanup_expired(rows, today, retention_days) ==
    {r \in rows : ~(r.date < today - Max(1, retention_days))}

\* the dates today_utc() returns to the cleanup: before, at and after the day
\* the rows of a run date reach the cutoff
CleanupDays ==
    {Day1 + DayGap, Day1 + audit_retention_days, Day1 + audit_retention_days + 1,
     Day1 + DayGap + audit_retention_days + 1}

\* no tick-based request yet
NoTick ==
    [kind |-> "none", missing |-> {}, late |-> FALSE, rebalance_actions |-> 0,
     skipped_weekend |-> FALSE, closed_positions |-> 0, wrote |-> {}]

Tables ==
    /\ watchlist = [k \in Dates \X Modes |-> <<>>]
    /\ plans = <<>>
    /\ gtts = <<>>
    /\ txs = <<>>
    /\ budgets = [k \in Dates \X Modes |-> NoBudget]
    /\ run = [kind |-> "none", returned |-> TRUE, fetchFailed |-> FALSE, log |-> {},
              faultPid |-> 0]
    /\ dayBudget = [d \in Dates \cup PlanDates |-> NoDayBudget]
    /\ positions = <<>>
    /\ ptxs = <<>>
    /\ tick = NoTick
    /\ dayPlan = [d \in PlanDates |-> NoDayPlan]
    /\ audits = {}

NoCall == [fn |-> "none", done |-> TRUE]

Init == Tables /\ call = NoCall

\* the database as a request handler finds it; fault is the persistence step of
\* its first execute_buy that fails (0: none)
Db(fault) ==
    [EmptyDb EXCEPT !.plans = plans, !.gtts = gtts, !.txs = txs, !.budgets = budgets,
                    !.fault = fault]

\* what the handler leaves behind
CommitWithin(kind, db, max_plans) ==
    /\ Len(db.plans) <= max_plans
    /\ Len(db.txs) <= MaxTxs
    /\ plans' = db.plans
    /\ gtts' = db.gtts
    /\ txs' = db.txs
    /\ budgets' = db.budgets
    /\ run' = [kind |-> kind, returned |-> ~db.raised, fetchFailed |-> db.fetchFailed,
               log |-> db.log, faultPid |-> db.faultPid]

Commit(kind, db) == CommitWithin(kind, db, MaxPlans)

\* the symbols whose market data a run of the date fetches
SwingReads(run_date) ==
    IF watchlist[<<run_date, "SWING">>] = <<>> THEN {}
    ELSE {watchlist[<<run_date, "SWING">>][i].symbol :
                i \in 1 .. Len(watchlist[<<run_date, "SWING">>])}
         \cup {gtts[i].symbol : i \in {j \in 1 .. Len(gtts) : gtts[j].status = "PENDING"}}
         \cup {plans[i].symbol : i \in {j \in 1 .. Len(plans) : plans[j].status = "OPEN"}}

IntradayReads(run_date) ==
    {watchlist[<<run_date, "INTRADAY">>][i].symbol :
        i \in 1 .. Len(watchlist[<<run_date, "INTRADAY">>])}

Tb == [dayBudget |-> dayBudget, positions |-> positions, ptxs |-> ptxs]

TickCommit(tb) ==
    /\ dayBudget' = tb.dayBudget
    /\ positions' = tb.positions
    /\ ptxs' = tb.ptxs
    /\ UNCHANGED <<watchlist, plans, gtts, txs, budgets, run, tick, dayPlan, audits,
                   call>>

\* POST /trading/run-tick, entry leg for one symbol whose snapshot says buy
TickBuy(run_date, symbol, price) ==
    LET tb0 == get_or_create_day_budget(Tb, run_date, budget_daily_inr)
        allocation == allocation_for_new_position(tb0, run_date, max_positions)
        qty == qty_from_cash(price, allocation)
        risk == compute_risk_prices(price, stop_pct, target_pct)
    IN  /\ get_open_position_for_symbol(tb0, run_date, symbol) = {}
        /\ entries_for_symbol(tb0, run_date, symbol) < max_entries_per_symbol_per_day
        /\ count_open_positions(tb0, run_date) < max_positions
        /\ qty > 0
        /\ TickCommit(open_position(tb0, run_date, symbol, qty, price,
                                    risk.stop_price, risk.target_price))

\* POST /trading/run-tick exit leg, or POST /trading/exit-day, for one open position
TickSell(position_id, price) ==
    /\ position_id \in 1 .. Len(positions)
    /\ positions[position_id].status = "OPEN"
    /\ TickCommit(close_position(Tb, position_id, positions[position_id].qty, price))

\* IntradayPaperPortfolioService.close_position called for an open position with
\* a requested quantity: a fraction of what is held (a partial rebalance), all
\* of it (an exit), or more
ClosePosition(position_id, qty, price) ==
    /\ position_id \in 1 .. Len(positions)
    /\ positions[position_id].status = "OPEN"
    /\ Len(ptxs) < MaxPaperTxs
    /\ TickCommit(close_position(Tb, position_id, qty, price))

\* the response to a run-tick or exit-day request for a Saturday or a Sunday,
\* built before anything is read
SkipWeekend(kind) ==
    /\ tick' = [NoTick EXCEPT !.kind = kind, !.skipped_weekend = TRUE]
    /\ UNCHANGED <<watchlist, plans, gtts, txs, budgets, run, dayBudget, positions, ptxs,
                   dayPlan, audits, call>>

\* POST /trading/run/tick past its weekend check.  A second fetch is made only
\* for a held symbol whose first fetch failed.
RunTickOnTradingDay(run_date, symbols, snaps, again, after_time_exit) ==
    /\ \A s \in DOMAIN snaps :
          again[s].ok => /\ ~snaps[s].ok
                         /\ get_open_position_for_symbol(Tb, run_date, s) # {}
    /\ LET res == run_tick(Tb, run_date, symbols, snaps, again, after_time_exit)
       IN  /\ dayBudget' = res.tb.dayBudget
           /\ positions' = res.tb.positions
           /\ ptxs' = res.tb.ptxs
           /\ tick' = [NoTick EXCEPT !.kind = "run_tick", !.missing = res.missing,
                                     !.late = after_time_exit,
                                     !.rebalance_actions = res.rebalance_actions,
                                     !.wrote = {"run_tick", "trade_decision"}]
    /\ dayPlan' = PlanForTick(dayPlan, run_date)
    /\ UNCHANGED <<watchlist, plans, gtts, txs, budgets, run, audits, call>>

\* POST /trading/run/tick
RunTickOn(run_date, symbols, snaps, again, after_time_exit) ==
    IF _is_weekend(run_date) THEN SkipWeekend("run_tick")
    ELSE RunTickOnTradingDay(run_date, symbols, snaps, again, after_time_exit)

\* POST /trading/exit/day past its weekend check; a held symbol without a
\* snapshot is one whose analyze_symbol raised
ExitOnTradingDay(run_date, snaps) ==
    /\ LET res == exit_day(Tb, run_date, snaps)
       IN  /\ dayBudget' = res.tb.dayBudget
           /\ positions' = res.tb.positions
           /\ ptxs' = res.tb.ptxs
           /\ tick' = [NoTick EXCEPT !.kind = "exit_day", !.closed_positions = res.closed,
                                     !.missing = {s \in DOMAIN snaps : ~snaps[s].ok},
                                     !.wrote = IF res.closed > 0
                                               THEN {"run_tick", "trade_decision"}
                                               ELSE {"run_tick"}]
    /\ dayPlan' = upsert_day_plan(dayPlan, run_date, FALSE)
    /\ UNCHANGED <<watchlist, plans, gtts, txs, budgets, run, audits, call>>

\* POST /trading/exit/day
ExitDay(run_date, snaps) ==
    IF _is_weekend(run_date) THEN SkipWeekend("exit_day")
    ELSE ExitOnTradingDay(run_date, snaps)

\* POST /trading/plan/day; ranked is FALSE when rank_symbols returns nothing and
\* the handler answers 400 after the plan and the universe snapshot are saved
PlanDay(requested, force_replan, ranked) ==
    /\ dayPlan[_next_weekday(requested)].selections < MaxSelections
    /\ dayPlan' = _plan_day_internal(dayPlan, _next_weekday(requested), force_replan,
                                     ranked)
    /\ tick' = [NoTick EXCEPT !.kind = "plan_day",
                              !.wrote = IF ranked THEN {"day_plan", "day_selection"}
                                        ELSE {"day_plan"}]
    /\ UNCHANGED <<watchlist, plans, gtts, txs, budgets, run, dayBudget, positions, ptxs,
                   audits, call>>

\* POST /api/audit/top-stocks/generate for both modes, refreshed
RefreshTopStocks(run_date, n) ==
    /\ audits' = refresh_modes(audits, run_date, Modes, n)
    /\ UNCHANGED <<watchlist, plans, gtts, txs, budgets, run, dayBudget, positions, ptxs,
                   tick, dayPlan, call>>

\* TopStocksCleanupScheduler._run_once, on its own session and thread: one
\* DELETE statement and its commit
_run_once(today) ==
    /\ audits' = cleanup_expired(audits, today, audit_retention_days)
    /\ call' = [fn |-> "cleanup_expired", done |-> TRUE, today |-> today,
                purged |-> Cardinality(audits) - Cardinality(audits')]
    /\ UNCHANGED <<watchlist, plans, gtts, txs, budgets, run, dayBudget, positions, ptxs,
                   tick, dayPlan>>

RunTick(run_date, snaps, again, after_time_exit) ==
    RunTickOn(run_date, TickSymbols, snaps, again, after_time_exit)

\* POST /api/watchlist: the route's limits, then JournalService.add_watchlist
SetWatchlist(run_date, mode, symbols, horizon_days) ==
    /\ Len(symbols) <= max_stocks_per_mode
    /\ Len(watchlist[<<run_date, mode>>])
          + Cardinality({symbols[i] : i \in 1 .. Len(symbols)}) <= max_stocks_per_mode
    /\ watchlist' = add_watchlist(watchlist, run_date, symbols, mode, horizon_days)
    /\ watchlist' # watchlist
    /\ UNCHANGED <<plans, gtts, txs, budgets, run>>
    /\ UNCHANGED tickVars

\* POST /api/run, mode SWING.  A symbol the run does not fetch has no row.
RunSwingWithin(run_date, mkt, fault, max_plans) ==
    /\ \A s \in DOMAIN mkt \ SwingReads(run_date) : mkt[s] = DailyFail
    /\ CommitWithin("swing", _run_swing(Db(fault), watchlist, run_date, mkt), max_plans)
    /\ UNCHANGED watchlist
    /\ UNCHANGED tickVars

RunSwing(run_date, mkt, fault) == RunSwingWithin(run_date, mkt, fault, MaxPlans)

\* POST /api/run, mode INTRADAY
RunIntraday(run_date, mkt, fault) ==
    /\ \A s \in Symbols \ IntradayReads(run_date) : mkt[s] = CandleFail
    /\ Commit("intraday", _run_intraday(Db(fault), watchlist, run_date, mkt))
    /\ UNCHANGED watchlist
    /\ UNCHANGED tickVars

\* One trading day of the swing pipeline over two symbols
Next ==
    \/ \E s \in SymbolLists : SetWatchlist(Day1, "SWING", s, None)
    \/ \E mkt \in [Symbols -> DailyRows] : RunSwing(Day1, mkt, 0)

Spec == Init /\ [][Next]_vars

\* One symbol of the swing pipeline followed over two run dates
NextDays ==
    \/ \E d \in Dates, h \in Horizons : SetWatchlist(d, "SWING", <<"A">>, h)
    \/ \E d \in Dates, mkt \in [Symbols -> DailyRows] : RunSwing(d, mkt, 0)

SpecDays == Init /\ [][NextDays]_vars

\* The intraday pipeline
NextIntraday ==
    \/ \E s \in SymbolLists : SetWatchlist(Day1, "INTRADAY", s, None)
    \/ \E mkt \in [Symbols -> CandleRows] : RunIntraday(Day1, mkt, 0)

SpecIntraday == Init /\ [][NextIntraday]_vars

\* The swing pipeline on one symbol, with a persistence step of execute_buy failing
Faults == 0 .. 3

NextFault ==
    \/ SetWatchlist(Day1, "SWING", <<"A">>, None)
    \/ \E mkt \in [Symbols -> DailyRows], f \in Faults : RunSwing(Day1, mkt, f)

SpecFault == Init /\ [][NextFault]_vars

\* The tick-based paper ledger
NextTick ==
    \/ \E s \in Symbols, p \in TickPrices : TickBuy(Day1, s, p)
    \/ \E i \in 1 .. Len(positions), p \in TickPrices : TickSell(i, p)

SpecTick == Init /\ [][NextTick]_vars

\* The run-tick handler over the day's two selected symbols
NextRunTick ==
    \E snaps \in [Symbols -> Snapshots], again \in [Symbols -> Snapshots],
       late \in BOOLEAN : RunTick(Day1, snaps, again, late)

SpecRunTick == Init /\ [][NextRunTick]_vars

\* The run-tick handler over a selection of three symbols, one more than
\* max_positions; every fetch succeeds, so none is made again
NextRebalance ==
    \E snaps \in [RebalanceSymbols -> RebalanceSnapshots], late \in BOOLEAN :
        RunTickOn(Day1, RebalanceSelection, snaps, [s \in RebalanceSymbols |-> SnapFail],
                  late)

SpecRebalance == Init /\ [][NextRebalance]_vars

\* The tick-based handlers over a week: plan the day, tick, force the exit
NextCalendar ==
    \/ \E d \in CalendarDates, f \in BOOLEAN, r \in BOOLEAN : PlanDay(d, f, r)
    \/ \E d \in CalendarDates, snaps \in [Symbols -> CalendarSnapshots], late \in BOOLEAN :
            RunTick(d, snaps, [s \in Symbols |-> SnapFail], late)
    \/ \E d \in CalendarDates, snaps \in [Symbols -> CalendarSnapshots] : ExitDay(d, snaps)

SpecCalendar == Init /\ [][NextCalendar]_vars

\* The cleanup thread beside the request handlers of both pipelines
NextCleanup ==
    \/ SetWatchlist(Day1, "SWING", <<"A">>, None)
    \/ \E mkt \in [Symbols -> {DailyFail, DailyBreakout}] : RunSwing(Day1, mkt, 0)
    \/ \E snaps \in [Symbols -> {SnapBuy, SnapStop}] :
            RunTick(Day1, snaps, [s \in Symbols |-> SnapFail], FALSE)
    \/ \E d \in Dates, n \in 1 .. MaxAuditRows : RefreshTopStocks(d, n)
    \/ \E today \in CleanupDays : _run_once(today)

SpecCleanup == Init /\ [][NextCleanup]_vars

\* The swing pipeline over a watchlist of three symbols, one more than
\* swing_max_open_positions
CapWatchlist == <<"A", "B", "C">>
CapSymbols == {CapWatchlist[i] : i \in 1 .. Len(CapWatchlist)}

NextCap ==
    \/ SetWatchlist(Day1, "SWING", CapWatchlist, None)
    \/ \E mkt \in [CapSymbols -> {DailyBreakout, DailyRally, DailyPullback}] :
            RunSwingWithin(Day1, mkt, 0, MaxCapPlans)

SpecCap == Init /\ [][NextCap]_vars

\* The ledger of IntradayPaperPortfolioService under entries and sales of any
\* requested quantity (half of what is held, all of it, one share more), at
\* prices above and below the entry
LedgerPrices == {INR(19), INR(20), INR(25)}
CloseQtys(position_id) ==
    {positions[position_id].qty \div 2, positions[position_id].qty,
     positions[position_id].qty + 100}

NextLedger ==
    \/ \E s \in Symbols, p \in LedgerPrices : TickBuy(Day1, s, p)
    \/ \E i \in 1 .. Len(positions), p \in LedgerPrices :
         \E q \in CloseQtys(i) : ClosePosition(i, q, p)

SpecLedger == Init /\ [][NextLedger]_vars

\* The strategy functions of swing_v1, called on rows drawn from the grids below
ExitCalls ==
    {[fn |-> "generate_exit_signal", done |-> FALSE,
      row |-> DailyRow(70, c, c, c, a, 0, 0, 0, 50, 0),
      trailing_stop |-> t, take_profit |-> INR(104), holding_days |-> hd,
      horizon_days |-> hz] :
        c \in {INR(96), INR(98), INR(100), INR(105)}, a \in {0, INR(2)},
        t \in {INR(97), INR(99)}, hd \in {0, 5, 6, 21}, hz \in {5, 20}}

\* an ATR of 0 or of one pip lies below the floor of 0.01
SignalCalls ==
    {[fn |-> "generate_signal", done |-> FALSE,
      row |-> DailyRow(n, c, c, c, a, INR(95), p, INR(99), r, h)] :
        n \in {MinSwingCandles - 1, 70}, c \in {INR(99) + 5000, INR(102)},
        a \in {0, 1, INR(2)}, p \in {INR(94), INR(96)}, r \in {40, 50, 58, 75},
        h \in {0, INR(100) + 5}}

\* prices at and below zero, budgets below, at and above the caps of both modes
SizerCalls ==
    {[fn |-> "size_buy_qty", done |-> FALSE, latest_price |-> p, remaining_budget |-> b,
      mode |-> m] :
        p \in {0 - INR(1), 0, 1, INR(30) + 33, INR(100) + 2005, INR(101)},
        b \in {0 - INR(5), 0, INR(9) + 9900, INR(98) + 2000, INR(100), INR(1000),
               INR(1500)},
        m \in Modes}

InitCalls == Tables /\ call \in ExitCalls \cup SignalCalls \cup SizerCalls

CallExitSignal ==
    /\ call.fn = "generate_exit_signal" /\ ~call.done
    /\ call' = [call EXCEPT !.done = TRUE] @@
                [result |-> generate_exit_signal(call.row, call.trailing_stop,
                                call.take_profit, call.holding_days, call.horizon_days)]
    /\ UNCHANGED <<watchlist, plans, gtts, txs, budgets, run, dayBudget, positions, ptxs,
                   tick, dayPlan, audits>>

CallSignal ==
    /\ call.fn = "generate_signal" /\ ~call.done
    /\ call' = [call EXCEPT !.done = TRUE] @@ [result |-> swing_generate_signal(call.row)]
    /\ UNCHANGED <<watchlist, plans, gtts, txs, budgets, run, dayBudget, positions, ptxs,
                   tick, dayPlan, audits>>

CallSizer ==
    /\ call.fn = "size_buy_qty" /\ ~call.done
    /\ call' = [call EXCEPT !.done = TRUE] @@
                [result |-> size_buy_qty(call.latest_price, call.remaining_budget,
                                         call.mode)]
    /\ UNCHANGED <<watchlist, plans, gtts, txs, budgets, run, dayBudget, positions, ptxs,
                   tick, dayPlan, audits>>

NextCalls == CallExitSignal \/ CallSignal \/ CallSizer

SpecCalls == InitCalls /\ [][NextCalls]_vars

---------------------------------------------------------------------------
(* Properties *)

BudgetKeys == {k \in Dates \X Modes : budgets[k].exists}

\* C1: every DailyBudget row, from its creation on and after every
\* update_budget_spent, has remaining = max(0, budget_total - spent).
C1_RemainingIsClampedDifference ==
    \A k \in BudgetKeys :
        budgets[k].remaining = Max(0, budgets[k].budget_total - budgets[k].spent)

\* fills have debited a budget beyond its total, and its remaining sits at zero
C1_Overspent ==
    \E k \in BudgetKeys :
        /\ budgets[k].spent > budgets[k].budget_total
        /\ budgets[k].remaining = 0

\* C2: after any sequence of open_position / close_position calls for a date,
\* closes above the entry price included, the DayBudget row has
\* remaining = budget_total - used.
C2_RemainingIsTotalMinusUsed ==
    \A d \in Dates :
        dayBudget[d].exists =>
            dayBudget[d].remaining = dayBudget[d].budget_total - dayBudget[d].used

StatusEdges ==
    {<<"PLANNED", "CANCELLED">>, <<"PLANNED", "GTT_PLACED">>, <<"PLANNED", "OPEN">>,
     <<"GTT_PLACED", "OPEN">>, <<"OPEN", "CLOSED">>}

\* C3: every status change a run makes to a TradePlan follows one of the edges
\* PLANNED->CANCELLED, PLANNED->GTT_PLACED, PLANNED->OPEN, GTT_PLACED->OPEN,
\* OPEN->CLOSED, so that no plan reaches CLOSED without having been OPEN.
C3_StatusChangesFollowEdges ==
    \A w \in run.log : w.from # w.to => <<w.from, w.to>> \in StatusEdges

Terminal == {"CLOSED", "CANCELLED"}

\* C4: once a TradePlan is CLOSED or CANCELLED, no later step changes its status,
\* stop_loss, gtt_sell_trigger or exit rules (the trailing stop).
C4_TerminalPlansFrozen ==
    [][\A i \in 1 .. Len(plans) :
          plans[i].status \in Terminal =>
              /\ i <= Len(plans')
              /\ plans'[i].status = plans[i].status
              /\ plans'[i].stop_loss = plans[i].stop_loss
              /\ plans'[i].gtt_sell_trigger = plans[i].gtt_sell_trigger
              /\ plans'[i].trailing_stop = plans[i].trailing_stop]_vars

\* a swing plan was filled and closed before the latest swing run, which wrote
\* to another plan and left the closed one alone
C4_ClosedPlanOutlivesRun ==
    /\ run.kind = "swing"
    /\ run.log # {}
    /\ \E i \in 1 .. Len(plans) :
          /\ plans[i].status = "CLOSED"
          /\ plans[i].trailing_stop # None
          /\ i \notin {w.id : w \in run.log}

PendingGtts(plan_id, side) ==
    {g \in 1 .. Len(gtts) : /\ gtts[g].linked_trade_plan_id = plan_id
                            /\ gtts[g].side = side
                            /\ gtts[g].status = "PENDING"}

\* C5: after any sequence of swing runs, every TradePlan has at most one PENDING
\* GTTOrder per side (BUY, SELL).
C5_OnePendingGttPerPlanSide ==
    \A p \in 1 .. Len(plans) : \A side \in {"BUY", "SELL"} :
        Cardinality(PendingGtts(p, side)) <= 1

\* one plan's BUY order has triggered and its SELL order waits, while another
\* plan's BUY order still waits
C5_OrdersOfBothSidesPending ==
    \E p, q \in 1 .. Len(plans) :
        /\ p # q
        /\ PendingGtts(p, "SELL") # {}
        /\ \E g \in 1 .. Len(gtts) : /\ gtts[g].linked_trade_plan_id = p
                                      /\ gtts[g].side = "BUY"
                                      /\ gtts[g].status = "TRIGGERED"
        /\ PendingGtts(q, "BUY") # {}

ActivePlans(symbol) ==
    {i \in 1 .. Len(plans) : /\ plans[i].mode = "SWING"
                             /\ plans[i].symbol = symbol
                             /\ plans[i].status \in {"GTT_PLACED", "OPEN"}}

\* C6: after any sequence of swing runs over any dates, each symbol has at most
\* one SWING TradePlan in GTT_PLACED or OPEN.
C6_OneActiveSwingPlanPerSymbol ==
    \A symbol \in Symbols : Cardinality(ActivePlans(symbol)) <= 1

\* a setup for a symbol was turned down on a later date because the plan of an
\* earlier date is still active
C6_SetupRefusedOnLaterDate ==
    \E i, j \in 1 .. Len(plans) :
        /\ i \in ActivePlans(plans[i].symbol)
        /\ plans[j].symbol = plans[i].symbol
        /\ plans[j].date > plans[i].date
        /\ plans[j].rationale = "Active swing plan already exists"

RECURSIVE DebitsOf(_, _, _)
\* the spent column as the BUY transactions of a (date, mode) account for it
DebitsOf(ts, key, acc) ==
    IF ts = <<>> THEN acc
    ELSE DebitsOf(Tail(ts), key,
                  IF Head(ts).side = "BUY" /\ <<Head(ts).date, Head(ts).mode>> = key
                  THEN Round2(acc + Head(ts).qty * Head(ts).entry_price) ELSE acc)

\* C7: a BUY fill is all-or-nothing, also when execute_buy fails between its
\* persistence steps: a plan has a BUY Transaction exactly if it was set OPEN,
\* and every budget is debited by exactly the BUY Transactions recorded.
C7_BuyFillAllOrNothing ==
    /\ \A p \in 1 .. Len(plans) :
          (\E t \in 1 .. Len(txs) : txs[t].trade_plan_id = p /\ txs[t].side = "BUY")
              <=> (plans[p].side = "BUY" /\ plans[p].status \in {"OPEN", "CLOSED"})
    /\ \A k \in BudgetKeys : budgets[k].spent = DebitsOf(txs, k, 0)

\* C8: no SWING plan is both opened (GTT_PLACED->OPEN) and closed (OPEN->CLOSED)
\* within a single swing run.
C8_NoOpenAndCloseInOneRun ==
    run.kind = "swing" =>
        ~ \E a, b \in run.log :
            /\ a.id = b.id
            /\ a.from = "GTT_PLACED" /\ a.to = "OPEN"
            /\ b.from = "OPEN" /\ b.to = "CLOSED"

RECURSIVE Committed(_, _)
\* qty x gtt_buy_trigger over the active SWING plans created on a date
Committed(ps, d) ==
    IF ps = <<>> THEN 0
    ELSE Committed(Tail(ps), d)
         + (IF /\ Head(ps).mode = "SWING" /\ Head(ps).date = d
               /\ Head(ps).status \in {"GTT_PLACED", "OPEN"}
            THEN Head(ps).qty * Head(ps).gtt_buy_trigger ELSE 0)

\* C9: for every run date, qty x gtt_buy_trigger summed over the SWING plans
\* created on that date that are GTT_PLACED or OPEN never exceeds that date's
\* SWING budget_total.
C9_SwingPlansWithinBudgetTotal ==
    \A d \in Dates :
        budgets[<<d, "SWING">>].exists =>
            Committed(plans, d) <= budgets[<<d, "SWING">>].budget_total

\* C10: a swing run in which the market data of a pending BUY order's symbol
\* could not be fetched still runs to its end and returns its summary.
C10_FetchFailureIsSkipped ==
    (run.kind = "swing" /\ run.fetchFailed) => run.returned

\* the paper_position rows and the paper_transaction rows of a symbol
PositionsOf(symbol) == [i \in {j \in 1 .. Len(positions) : positions[j].symbol = symbol}
                            |-> positions[i]]

PaperTxsOf(symbol) ==
    {k \in 1 .. Len(ptxs) : positions[ptxs[k].position_id].symbol = symbol}

\* C11: a run-tick leaves the position and the transactions (and with them the
\* budget contribution) of every symbol whose market data was unavailable
\* during the tick exactly as they were, in its exit pass, entry pass and
\* rebalancer.
C11_UnavailableSymbolUntouched ==
    [][\A s \in tick'.missing :
          PositionsOf(s)' = PositionsOf(s) /\ PaperTxsOf(s)' = PaperTxsOf(s)]_vars

\* a tick that had no data for a symbol it held, and data for the other
C11_HeldSymbolWithoutData ==
    \E i \in 1 .. Len(positions) :
        /\ positions[i].symbol \in tick.missing
        /\ tick.missing # Symbols
        /\ ~tick.late

\* quantity still held of the position a plan entered: for a swing plan its own
\* BUY less its own SELL rows, for an intraday plan the net open quantity of
\* its date and symbol
PlanPositionQty(plan_id) ==
    IF plans[plan_id].mode = "SWING"
    THEN SeqSum([k \in 1 .. Len(txs) |->
            IF txs[k].trade_plan_id # plan_id THEN 0
            ELSE IF txs[k].side = "BUY" THEN txs[k].qty ELSE 0 - txs[k].qty])
    ELSE get_open_qty_for_symbol(Db(0), plans[plan_id].date, plans[plan_id].symbol)

\* C12: a TradePlan is OPEN only while its position has a positive quantity;
\* once the position an OPEN plan entered is fully sold, the plan is no longer
\* OPEN (INTRADAY and SWING).
C12_OpenPlanHoldsPosition ==
    \A i \in 1 .. Len(plans) : plans[i].status = "OPEN" => PlanPositionQty(i) > 0

\* the position of an intraday BUY plan has been sold in full
C12_IntradayPositionSold ==
    \E i \in 1 .. Len(plans), k \in 1 .. Len(txs) :
        /\ plans[i].mode = "INTRADAY" /\ plans[i].side = "BUY"
        /\ txs[k].side = "SELL" /\ txs[k].symbol = plans[i].symbol
        /\ \E b \in 1 .. Len(txs) : txs[b].trade_plan_id = i /\ txs[b].side = "BUY"
        /\ PlanPositionQty(i) = 0

\* the swing run of the date reads a BUY_SETUP for a watchlist symbol that has no
\* active plan
SetupFor(mkt, symbol) ==
    /\ \E i \in 1 .. Len(watchlist[<<Day1, "SWING">>]) :
            watchlist[<<Day1, "SWING">>][i].symbol = symbol
    /\ mkt[symbol].ok /\ mkt[symbol].n >= MinSwingCandles
    /\ swing_generate_signal(mkt[symbol]).action = "BUY_SETUP"
    /\ active_swing_plans(Db(0), symbol) = <<>>

\* the plan of the symbol, the only new row for it, is a GTT plan in GTT_PLACED
\* with one PENDING BUY order at the trigger and no transaction
PlacedBy(i, symbol, trigger) ==
    /\ \A j \in Len(plans) + 1 .. Len(plans') : plans'[j].symbol = symbol => j = i
    /\ plans'[i].symbol = symbol /\ plans'[i].mode = "SWING" /\ plans'[i].side = "BUY"
    /\ plans'[i].plan_type = "GTT" /\ plans'[i].status = "GTT_PLACED"
    /\ plans'[i].gtt_buy_trigger = trigger /\ plans'[i].qty > 0
    /\ \E g \in 1 .. Len(gtts') :
          /\ gtts'[g].linked_trade_plan_id = i
          /\ gtts'[g].side = "BUY" /\ gtts'[g].status = "PENDING"
          /\ gtts'[g].trigger_price = trigger /\ gtts'[g].qty = plans'[i].qty
          /\ \A h \in 1 .. Len(gtts') : gtts'[h].linked_trade_plan_id = i => h = g
    /\ \A t \in 1 .. Len(txs') : txs'[t].trade_plan_id # i
    /\ budgets'[<<Day1, "SWING">>].spent
          = DebitsOf(SubSeq(txs', Len(txs) + 1, Len(txs')), <<Day1, "SWING">>,
                     budgets[<<Day1, "SWING">>].spent)

\* C13: a swing run that yields BUY_SETUP for a watchlist symbol with no active
\* plan, with free capacity and a positive quantity, creates exactly one
\* TradePlan (plan_type GTT, status GTT_PLACED) and exactly one PENDING BUY
\* GTTOrder linked to it at the signal's trigger price; no Transaction is booked
\* for it and the ledger is not debited for it.
C13_SetupPlacesOneGttPlan ==
    [][\A mkt \in [Symbols -> DailyRows], s \in Symbols :
          (/\ SetupFor(mkt, s)
           /\ RunSwing(Day1, mkt, 0)
           /\ run'.returned
           /\ Len(get_open_swing_plans(Db(0))') < swing_max_open_positions
           /\ size_buy_qty(swing_generate_signal(mkt[s]).params.gtt_buy_trigger,
                           budgets'[<<Day1, "SWING">>].remaining, "SWING") > 0)
          => \E i \in Len(plans) + 1 .. Len(plans') :
                PlacedBy(i, s, swing_generate_signal(mkt[s]).params.gtt_buy_trigger)]_vars

\* a run has just placed an entry order for a plan
C13_EntryOrderPlaced ==
    /\ run.kind = "swing" /\ run.returned
    /\ \E i \in 1 .. Len(plans), g \in 1 .. Len(gtts) :
          /\ plans[i].status = "GTT_PLACED" /\ plans[i].plan_type = "GTT"
          /\ \E e \in run.log : e.id = i /\ e.to = "GTT_PLACED"
          /\ gtts[g].linked_trade_plan_id = i /\ gtts[g].status = "PENDING"
          /\ \A t \in 1 .. Len(txs) : txs[t].trade_plan_id # i

\* the rows a processing run appended to a table
Appended(before, after) == SubSeq(after, Len(before) + 1, Len(after))

\* what process_pending_buy_gtts makes of the PENDING BUY order g when the run
\* of date d reads the candles mkt: r is the database it leaves
PendingBuyOutcome(r, g, mkt) ==
    LET p == gtts[g].linked_trade_plan_id
        trigger == gtts[g].trigger_price
        fired == r.gtts[g].status = "TRIGGERED"
        fills == {t \in Len(txs) + 1 .. Len(r.txs) : r.txs[t].trade_plan_id = p}
        sells == {h \in 1 .. Len(r.gtts) :
                    r.gtts[h].linked_trade_plan_id = p /\ r.gtts[h].side = "SELL"}
    IN  /\ fired <=> mkt[gtts[g].symbol].high >= trigger
        /\ ~fired => r.gtts[g] = gtts[g] /\ r.plans[p] = plans[p] /\ fills = {} /\ sells = {}
        /\ fired =>
              /\ Cardinality(fills) = 1
              /\ \A t \in fills :
                    /\ r.txs[t].side = "BUY" /\ r.txs[t].qty = plans[p].qty
                    /\ r.txs[t].entry_price = trigger /\ r.txs[t].gtt_id = g
              /\ r.plans[p].status = "OPEN"
              /\ r.gtts[g].executed_price = trigger
              /\ Cardinality(sells) = 1
              /\ \A h \in sells :
                    /\ r.gtts[h].status = "PENDING" /\ r.gtts[h].qty = plans[p].qty
                    /\ r.gtts[h].trigger_price = plans[p].stop_loss

\* C14: a PENDING BUY GTTOrder fires exactly when the high of the latest daily
\* candle is at or above its trigger price; when it fires the BUY is booked at
\* the trigger price (not the close), the ledger of the run date is debited by
\* qty x trigger, the plan becomes OPEN, the BUY order becomes TRIGGERED and one
\* PENDING SELL GTTOrder is created at the plan's stop-loss.
C14_PendingBuyFiresOnHigh ==
    \A d \in Dates, mkt \in [Symbols -> DailyRows \ {DailyFail}] :
        LET r == process_pending_buy_gtts(Db(0), d, mkt).db
        IN  /\ \A g \in 1 .. Len(gtts) :
                  gtts[g].status = "PENDING" /\ gtts[g].side = "BUY"
                      => PendingBuyOutcome(r, g, mkt)
            /\ Len(r.txs) > Len(txs) =>
                  r.budgets[<<d, "SWING">>].spent
                      = DebitsOf(Appended(txs, r.txs), <<d, "SWING">>,
                                 budgets[<<d, "SWING">>].spent)

\* a run has fired a BUY order on a candle that closed below its high: the
\* fill is at the trigger price
C14_BuyFilledAtTrigger ==
    \E g \in 1 .. Len(gtts), t \in 1 .. Len(txs) :
        /\ gtts[g].side = "BUY" /\ gtts[g].status = "TRIGGERED"
        /\ txs[t].gtt_id = g /\ txs[t].side = "BUY"
        /\ txs[t].entry_price = gtts[g].trigger_price
        /\ \E e \in run.log : e.id = gtts[g].linked_trade_plan_id /\ e.to = "OPEN"
        /\ \E h \in 1 .. Len(gtts) :
              /\ gtts[h].side = "SELL" /\ gtts[h].status = "PENDING"
              /\ gtts[h].linked_trade_plan_id = gtts[g].linked_trade_plan_id

\* processing leaves every GTTOrder as it was, but for the trigger price of the
\* plan's PENDING SELL order, which is the plan's recomputed stop
OnlySellTriggerMoved(r, plan_id) ==
    /\ Len(r.gtts) = Len(gtts)
    /\ \A g \in 1 .. Len(gtts) :
          IF /\ gtts[g].linked_trade_plan_id = plan_id
             /\ gtts[g].side = "SELL" /\ gtts[g].status = "PENDING"
          THEN r.gtts[g] = [gtts[g] EXCEPT !.trigger_price = r.plans[plan_id].stop_loss]
          ELSE r.gtts[g] = gtts[g]

\* C15: processing an OPEN swing plan never creates a GTTOrder; it only sets the
\* trigger price of the plan's existing PENDING SELL order to the recomputed
\* trailing stop, so that processing the same plan a second time with the same
\* candle and date leaves the plan and its GTT orders unchanged.
C15_OpenPlanProcessingIdempotent ==
    \A d \in Dates, mkt \in [Symbols -> DailyRows \ {DailyFail}] :
        \A p \in 1 .. Len(plans) :
            plans[p].mode = "SWING" /\ plans[p].status = "OPEN" =>
                LET once == _process_open_plan(Db(0), p, d, mkt).db
                    twice == _process_open_plan(once, p, d, mkt).db
                IN  /\ Len(once.gtts) = Len(gtts)
                    /\ once.plans[p].status = "OPEN" =>
                          /\ OnlySellTriggerMoved(once, p)
                          /\ twice.plans = once.plans
                          /\ twice.gtts = once.gtts
                          /\ twice.txs = once.txs

\* a run has raised the stop of a plan it left OPEN, and with it the trigger of
\* the plan's PENDING SELL order
C15_StopRaisedInPlace ==
    \E p \in 1 .. Len(plans), g \in 1 .. Len(gtts) :
        /\ plans[p].status = "OPEN" /\ plans[p].mode = "SWING"
        /\ \E e \in run.log : e.id = p /\ e.from = "OPEN" /\ e.to = "OPEN"
        /\ gtts[g].linked_trade_plan_id = p /\ gtts[g].side = "SELL"
        /\ gtts[g].status = "PENDING"
        /\ gtts[g].trigger_price = plans[p].stop_loss
        /\ plans[p].stop_loss > Round4(2 * plans[p].gtt_buy_trigger - 3 * INR(2), 2)

\* C16: for every OPEN swing plan the stored trailing stop (the plan's
\* stop_loss and gtt_sell_trigger, and the trigger price of its PENDING SELL
\* GTTOrder) never decreases.
C16_TrailingStopNeverDecreases ==
    [][\A p \in 1 .. Len(plans) :
          plans[p].mode = "SWING" /\ plans[p].status = "OPEN" =>
              /\ plans'[p].stop_loss >= plans[p].stop_loss
              /\ plans'[p].gtt_sell_trigger >= plans[p].gtt_sell_trigger
              /\ plans'[p].trailing_stop >= plans[p].trailing_stop
              /\ \A g \in 1 .. Len(gtts) :
                    /\ gtts[g].linked_trade_plan_id = p
                    /\ gtts[g].side = "SELL" /\ gtts[g].status = "PENDING"
                    => gtts'[g].trigger_price >= gtts[g].trigger_price]_vars

\* a run processed an OPEN plan on a candle whose close less 1.5 ATR lies below
\* the stored stop, and kept the stop
C16_StopKept ==
    \E p \in 1 .. Len(plans) :
        /\ plans[p].mode = "SWING" /\ plans[p].status = "OPEN"
        /\ \E e \in run.log : e.id = p /\ e.from = "OPEN" /\ e.to = "OPEN" /\ ~e.dirty
        /\ plans[p].stop_loss > DailyPullback.close - (3 * DailyPullback.atr14) \div 2
        /\ plans[p].stop_loss < DailyPullback.low

\* C17: generate_exit_signal decides by a fixed priority: holding_days above
\* horizon_days is EXIT on the time-stop whatever the price; otherwise a close at
\* or above take_profit is EXIT; otherwise a close below the new trailing stop
\* is EXIT; otherwise HOLD.
C17_ExitSignalPriority ==
    call.fn = "generate_exit_signal" /\ call.done =>
        LET close == call.row.close
            atr14 == IF call.row.atr14 > MinAtr THEN call.row.atr14 ELSE MinAtr
            drop == (3 * atr14) \div 2
            new_trailing == IF call.trailing_stop >= close - drop
                            THEN call.trailing_stop ELSE close - drop
        IN  /\ call.result.new_trailing_stop = new_trailing
            /\ IF call.holding_days > call.horizon_days
               THEN call.result.action = "EXIT" /\ call.result.rationale = "Time-stop reached"
               ELSE IF close >= call.take_profit
               THEN call.result.action = "EXIT"
                    /\ call.result.rationale = "Take-profit reached"
               ELSE IF close < new_trailing
               THEN call.result.action = "EXIT"
                    /\ call.result.rationale = "Close breached trailing stop"
               ELSE call.result.action = "HOLD"

\* the time-stop wins over a close that has reached the take-profit
C17_TimeStopAtTakeProfit ==
    /\ call.fn = "generate_exit_signal" /\ call.done
    /\ call.holding_days > call.horizon_days
    /\ call.row.close >= call.take_profit
    /\ call.result.rationale = "Time-stop reached"

\* C19: every BUY_SETUP that the swing generate_signal returns has
\* stop_loss < gtt_buy_trigger < take_profit.
C19_SetupLevelsOrdered ==
    call.fn = "generate_signal" /\ call.done /\ call.result.action = "BUY_SETUP" =>
        /\ call.result.params.stop_loss < call.result.params.gtt_buy_trigger
        /\ call.result.params.gtt_buy_trigger < call.result.params.take_profit

\* a BUY_SETUP on a row whose ATR lies below the floor
C19_SetupOnFlatAtr ==
    /\ call.fn = "generate_signal" /\ call.done
    /\ call.result.action = "BUY_SETUP"
    /\ call.row.atr14 < MinAtr

\* what _process_open_plan makes of the OPEN plan p whose PENDING SELL order is g,
\* when the candle both reaches the recomputed stop and gives EXIT
ClosedByTrigger(r, p, g, new_trailing) ==
    LET sold == {t \in Len(txs) + 1 .. Len(r.txs) : r.txs[t].trade_plan_id = p}
    IN  /\ Cardinality(sold) = 1
        /\ \A t \in sold :
              /\ r.txs[t].side = "SELL" /\ r.txs[t].exit_price = new_trailing
              /\ r.txs[t].order_type = "GTT_TRIGGER" /\ r.txs[t].gtt_id = g
        /\ r.gtts[g].status = "TRIGGERED"
        /\ r.gtts[g].executed_price = new_trailing
        /\ r.plans[p].status = "CLOSED"

\* C18: when in one cycle both the PENDING SELL GTT trigger (low at or below the
\* recomputed trailing stop) and the exit signal EXIT hold for an OPEN plan,
\* the position is closed by the conditional trigger: exactly one SELL
\* Transaction, at the trailing-stop price, and the SELL order ends TRIGGERED.
C18_TriggerWinsOverExitSignal ==
    \A d \in Dates, mkt \in [Symbols -> DailyRows \ {DailyFail}] :
        \A p \in 1 .. Len(plans), g \in 1 .. Len(gtts) :
            (/\ plans[p].mode = "SWING" /\ plans[p].status = "OPEN"
             /\ gtts[g].linked_trade_plan_id = p
             /\ gtts[g].side = "SELL" /\ gtts[g].status = "PENDING") =>
                LET row == mkt[plans[p].symbol]
                    drop == (3 * (IF row.atr14 > MinAtr THEN row.atr14 ELSE MinAtr)) \div 2
                    new_trailing == IF plans[p].trailing_stop >= row.close - drop
                                    THEN plans[p].trailing_stop ELSE row.close - drop
                    held == IF d > plans[p].date THEN d - plans[p].date ELSE 0
                    horizon == IF plans[p].holding_horizon_days \in {None, 0}
                               THEN DefaultHorizon ELSE plans[p].holding_horizon_days
                    exit == \/ held > horizon
                            \/ row.close >= plans[p].take_profit
                            \/ row.close < new_trailing
                IN  row.low <= new_trailing /\ exit =>
                        ClosedByTrigger(_process_open_plan(Db(0), p, d, mkt).db, p, g,
                                        new_trailing)

\* a plan past its horizon was closed by its SELL order, at the stop
C18_TimeStopClosedAtStop ==
    \E p \in 1 .. Len(plans), t \in 1 .. Len(txs), g \in 1 .. Len(gtts) :
        /\ plans[p].status = "CLOSED" /\ plans[p].mode = "SWING"
        /\ txs[t].trade_plan_id = p /\ txs[t].side = "SELL"
        /\ txs[t].date - plans[p].date > plans[p].holding_horizon_days
        /\ txs[t].order_type = "GTT_TRIGGER" /\ txs[t].gtt_id = g
        /\ txs[t].exit_price = plans[p].stop_loss
        /\ gtts[g].status = "TRIGGERED" /\ gtts[g].side = "SELL"

\* the database once the route has created the SELL plan it hands to execute_sell
WithSellPlan(d, symbol, mode, qty) ==
    create_trade_plan(Db(0),
        TradePlanRow(d, symbol, "SELL", qty, CandleDown.close, "Trend down", mode,
                     "MARKET", None, None, None, None, None, None, "PLANNED"))

\* C20: execute_sell with no matching open BUY (intraday: the net open quantity
\* of the date and symbol is 0) is rejected: it returns executed = false, books
\* no Transaction, leaves the ledger unchanged and sets the plan CANCELLED.
C20_SellWithoutPositionRejected ==
    \A d \in Dates, s \in Symbols, mode \in Modes, qty \in {0, 3} :
        (mode = "INTRADAY" => get_open_qty_for_symbol(Db(0), d, s) = 0) =>
            LET res == execute_sell(WithSellPlan(d, s, mode, qty), Len(plans) + 1, d, s,
                                    qty, CandleDown.close, mode, "MARKET", None)
            IN  /\ ~res.executed
                /\ res.db.txs = txs
                /\ res.db.budgets = budgets
                /\ res.db.plans[Len(plans) + 1].status = "CANCELLED"
                /\ SubSeq(res.db.plans, 1, Len(plans)) = plans

\* a run met a SELL signal for a symbol bought and sold before: the second SELL
\* plan is CANCELLED and books nothing
C20_SecondSellCancelled ==
    \E p \in 1 .. Len(plans), b, t \in 1 .. Len(txs) :
        /\ run.kind = "intraday"
        /\ plans[p].side = "SELL" /\ plans[p].status = "CANCELLED"
        /\ txs[b].side = "BUY" /\ txs[b].symbol = plans[p].symbol
        /\ txs[t].side = "SELL" /\ txs[t].symbol = plans[p].symbol
        /\ \A k \in 1 .. Len(txs) : txs[k].trade_plan_id # p

\* C21: after any sequence of intraday runs, for every date and symbol the
\* total SELL quantity booked never exceeds the total BUY quantity booked: the
\* net open quantity is never negative.
C21_IntradaySellsWithinBuys ==
    \A d \in Dates, s \in Symbols :
        SeqSum([k \in 1 .. Len(txs) |->
                  IF txs[k].mode = "INTRADAY" /\ txs[k].date = d /\ txs[k].symbol = s
                     /\ txs[k].side = "SELL" THEN txs[k].qty ELSE 0])
          <= SeqSum([k \in 1 .. Len(txs) |->
                  IF txs[k].mode = "INTRADAY" /\ txs[k].date = d /\ txs[k].symbol = s
                     /\ txs[k].side = "BUY" THEN txs[k].qty ELSE 0])

\* everything bought of a symbol has been sold, and a further SELL signal came
C21_SoldOutAndAskedAgain ==
    \E t \in 1 .. Len(txs), p \in 1 .. Len(plans) :
        /\ txs[t].mode = "INTRADAY" /\ txs[t].side = "SELL" /\ txs[t].qty > 0
        /\ get_open_qty_for_symbol(Db(0), txs[t].date, txs[t].symbol) = 0
        /\ plans[p].side = "SELL" /\ plans[p].symbol = txs[t].symbol
        /\ p > txs[t].trade_plan_id

\* the BUY a SELL transaction was matched with: for a swing plan the latest BUY
\* of the plan, for intraday the latest BUY of the date and symbol
MatchedBuy(t) ==
    LET buys == {b \in 1 .. t - 1 :
                    /\ txs[b].side = "BUY" /\ txs[b].mode = txs[t].mode
                    /\ IF txs[t].mode = "SWING"
                       THEN txs[b].trade_plan_id = txs[t].trade_plan_id
                       ELSE txs[b].date = txs[t].date /\ txs[b].symbol = txs[t].symbol}
    IN  IF buys = {} THEN 0 ELSE CHOOSE b \in buys : \A c \in buys : c <= b

\* C22: for every executed SELL, pnl = (exit price - entry price of the matched
\* BUY) x sold quantity; a BUY followed by a full SELL at the same price has
\* pnl 0.
C22_PnlIsPriceDifferenceTimesQty ==
    \A t \in 1 .. Len(txs) :
        txs[t].side = "SELL" =>
            /\ MatchedBuy(t) # 0
            /\ txs[t].entry_price = txs[MatchedBuy(t)].entry_price
            /\ txs[t].pnl = (txs[t].exit_price - txs[MatchedBuy(t)].entry_price) * txs[t].qty
            /\ (txs[t].exit_price = txs[MatchedBuy(t)].entry_price
                    /\ txs[t].qty = txs[MatchedBuy(t)].qty) => txs[t].pnl = 0

\* a position sold in full at the price it was bought at
C22_RoundTripAtSamePrice ==
    \E t \in 1 .. Len(txs) :
        /\ txs[t].side = "SELL" /\ MatchedBuy(t) # 0
        /\ txs[t].exit_price = txs[MatchedBuy(t)].entry_price
        /\ txs[t].qty = txs[MatchedBuy(t)].qty /\ txs[t].qty > 0

\* a 5m candle in an uptrend of a share priced above the whole intraday budget
CandlePricey == CandleRow(30, INR(101), INR(99), TRUE, 60)

\* the handler's database r against the one it found, once the day's budget row of
\* the mode exists: one more plan, for the symbol, CANCELLED; no Transaction, no
\* GTTOrder, the ledger as it was
RecordedCancelled(r, mode, symbol) ==
    /\ ~r.raised
    /\ r.txs = txs
    /\ r.gtts = gtts
    /\ r.budgets = get_or_create_budget(Db(0), Day1, mode).budgets
    /\ Len(r.plans) = Len(plans) + 1
    /\ SubSeq(r.plans, 1, Len(plans)) = plans
    /\ r.plans[Len(r.plans)].symbol = symbol
    /\ r.plans[Len(r.plans)].mode = mode
    /\ r.plans[Len(r.plans)].status = "CANCELLED"

\* the swing entry loop reaches the sizer for the row's symbol
SwingSized(row, symbol) ==
    /\ row.ok /\ row.n >= MinSwingCandles
    /\ swing_generate_signal(row).action = "BUY_SETUP"
    /\ active_swing_plans(Db(0), symbol) = <<>>
    /\ can_open_new_position(Db(0), Day1, "SWING")

\* C23: whenever the sizer yields a quantity of zero or less for a BUY, intraday
\* or swing, the trade is not executed: no Transaction, no GTTOrder, the ledger
\* unchanged, and the plan recorded for the signal ends CANCELLED.
C23_ZeroQuantityBuyCancelled ==
    \A s \in Symbols :
      /\ \A row \in CandleRows \cup {CandlePricey} :
            (/\ row.ok /\ row.n >= MinIntradayCandles
             /\ intraday_generate_signal(analyze_trend(row), row.rsi14) = "BUY"
             /\ size_buy_qty(row.close, budget_remaining(
                                 get_or_create_budget(Db(0), Day1, "INTRADAY"),
                                 Day1, "INTRADAY"), "INTRADAY") <= 0)
            => RecordedCancelled(IntradaySymbol(Db(0), Day1, s, [x \in Symbols |-> row]),
                                 "INTRADAY", s)
      /\ \A row \in DailyRows, h \in Horizons :
            (/\ SwingSized(row, s)
             /\ size_buy_qty(swing_generate_signal(row).params.gtt_buy_trigger,
                             budget_remaining(get_or_create_budget(Db(0), Day1, "SWING"),
                                              Day1, "SWING"), "SWING") <= 0)
            => RecordedCancelled(SwingSymbol(Db(0), Day1,
                                             [symbol |-> s, horizon_days |-> h],
                                             [x \in Symbols |-> row]),
                                 "SWING", s)

\* a swing run has refused a setup because the remaining budget buys no share
C23_SetupSizedToZero ==
    /\ run.kind = "swing" /\ run.returned
    /\ \E i \in 1 .. Len(plans) :
          /\ plans[i].rationale = "Qty became zero under swing allocation"
          /\ plans[i].status = "CANCELLED"
          /\ plans[i].qty = 0
          /\ \A t \in 1 .. Len(txs) : txs[t].trade_plan_id # i
          /\ \A g \in 1 .. Len(gtts) : gtts[g].linked_trade_plan_id # i

\* the spending cap of a mode
ModeCap(mode) == IF mode = "SWING" THEN swing_allocation_inr ELSE intraday_daily_budget_inr

\* C24: size_buy_qty returns floor(min(remaining_budget, mode cap) / price) for
\* every price above zero, remaining budget and mode, and 0 for a price of zero
\* or less.  The floor q of c / p is the integer with q * p <= c < (q + 1) * p.
C24_SizerIsFloorOfCappedBudget ==
    (call.fn = "size_buy_qty" /\ call.done)
    => IF call.latest_price <= 0 THEN call.result = 0
       ELSE LET cap == IF call.remaining_budget <= ModeCap(call.mode)
                       THEN call.remaining_budget ELSE ModeCap(call.mode)
            IN  /\ call.result * call.latest_price <= cap
                /\ cap < (call.result + 1) * call.latest_price

\* the sizer has cut a budget above the intraday cap down to three shares
C24_SizedUnderCap ==
    /\ call.fn = "size_buy_qty" /\ call.done
    /\ call.mode = "INTRADAY"
    /\ call.remaining_budget > intraday_daily_budget_inr
    /\ call.latest_price = INR(30) + 33
    /\ call.result = 3

\* the transactions a step has booked
Booked == SubSeq(txs', Len(txs) + 1, Len(txs'))

\* C25: in the plan-based ledger the spent column never decreases, only a BUY
\* fill changes a DailyBudget row, and a SELL leaves spent and remaining as they
\* were: over any step a row's spent grows by the cost of the BUY transactions
\* the step booked for its (date, mode), and a row with none is unchanged.
C25_OnlyBuyFillsMoveTheLedger ==
    [][/\ SubSeq(txs', 1, Len(txs)) = txs
       /\ \A k \in Dates \X Modes :
            /\ budgets'[k].spent >= budgets[k].spent
            /\ budgets'[k].spent = DebitsOf(Booked, k, budgets[k].spent)
            /\ (/\ budgets[k].exists
                /\ \A i \in 1 .. Len(Booked) :
                      Booked[i].side = "BUY" => <<Booked[i].date, Booked[i].mode>> # k)
               => budgets'[k] = budgets[k]]_vars

\* a position was bought and sold again, and the budget still carries the cost
\* of the purchase
C25_SoldAndStillSpent ==
    \E b, t \in 1 .. Len(txs) :
        /\ txs[b].side = "BUY" /\ txs[t].side = "SELL"
        /\ txs[t].trade_plan_id = txs[b].trade_plan_id
        /\ budgets[<<txs[b].date, txs[b].mode>>].spent
              = Round2(txs[b].qty * txs[b].entry_price)
        /\ budgets[<<txs[b].date, txs[b].mode>>].remaining
              = budgets[<<txs[b].date, txs[b].mode>>].budget_total
                   - budgets[<<txs[b].date, txs[b].mode>>].spent

\* the open positions of the day, and the rebalancer called on the ledger with
\* the ranking run_tick builds from the snapshots
Held == get_open_positions(Tb, Day1)
Rebalanced(snaps) == apply(Tb, Day1, RankedForRebalance(RebalanceSelection, snaps), snaps)

\* score_by_symbol.get(symbol, 0.0) over the ranked items
HeldScore(snaps, i) == IF snaps[positions[i].symbol].ok THEN snaps[positions[i].symbol].score ELSE 0

\* the symbols a rebalance may buy: ranked, not held, buy condition true
Eligible(snaps) ==
    {s \in RebalanceSymbols :
        /\ snaps[s].ok /\ snaps[s].buy_condition
        /\ \A i \in Held : positions[i].symbol # s}

\* the held positions of the minimum score and the candidates of the maximum
Weaklings(snaps) == {i \in Held : \A j \in Held : HeldScore(snaps, i) <= HeldScore(snaps, j)}
Bests(snaps) == {s \in Eligible(snaps) : \A t \in Eligible(snaps) : snaps[s].score >= snaps[t].score}

\* improvement_pct of the best score b over the weakest w exceeds the threshold
ImprovementAbove(w, b, threshold) ==
    IF w > 0 THEN (b - w) * 100 > threshold * w
    ELSE IF b > 0 THEN 100 > threshold
    ELSE 0 > threshold

\* the rebalance r has sold position i whole
SoldWhole(r, i) ==
    /\ r.tb.positions[i].status = "CLOSED" /\ r.tb.positions[i].qty = 0
    /\ r.tb.ptxs[Len(ptxs) + 1].position_id = i
    /\ r.tb.ptxs[Len(ptxs) + 1].side = "SELL"
    /\ r.tb.ptxs[Len(ptxs) + 1].qty = positions[i].qty
    /\ r.decisions[1].action = "SELL"
    /\ r.decisions[1].symbol = positions[i].symbol
    /\ r.decisions[1].intended_qty = positions[i].qty

\* the rebalance r has bought symbol s: a BUY decision and a new OPEN position
BoughtBest(r, s) ==
    /\ r.actions = 2
    /\ Len(r.decisions) = 2
    /\ r.decisions[2].action = "BUY" /\ r.decisions[2].symbol = s
    /\ Len(r.tb.positions) = Len(positions) + 1
    /\ r.tb.positions[Len(r.tb.positions)].symbol = s
    /\ r.tb.positions[Len(r.tb.positions)].status = "OPEN"
    /\ r.tb.positions[Len(r.tb.positions)].date = Day1
    /\ r.tb.positions[Len(r.tb.positions)].qty = r.decisions[2].intended_qty
    /\ r.tb.ptxs[Len(r.tb.ptxs)].side = "BUY"
    /\ r.tb.ptxs[Len(r.tb.ptxs)].position_id = Len(r.tb.positions)

PartialBand(snaps) ==
    /\ Held # {} /\ Eligible(snaps) # {}
    /\ \A i \in Weaklings(snaps), s \in Bests(snaps) :
          /\ ImprovementAbove(HeldScore(snaps, i), snaps[s].score,
                              rebalance_partial_threshold)
          /\ ~ImprovementAbove(HeldScore(snaps, i), snaps[s].score,
                               rebalance_full_threshold)

\* C27: the number of OPEN paper positions of a date never exceeds max_positions
\* after any sequence of run_tick calls, rebalancing ticks included; a partial
\* rebalance is skipped whenever the open count is already max_positions or more.
C27_OpenPositionsWithinMax ==
    /\ count_open_positions(Tb, Day1) <= max_positions
    /\ \A snaps \in [RebalanceSymbols -> Snapshots] :
          (PartialBand(snaps) /\ count_open_positions(Tb, Day1) >= max_positions)
          => Rebalanced(snaps) = [tb |-> Tb, actions |-> 0, decisions |-> <<>>]

\* a rebalancing tick has left every slot taken, and the next snapshots can put
\* a candidate in the partial band
C27_SlotsFullAfterRebalance ==
    /\ tick.rebalance_actions = 2 /\ ~tick.late
    /\ count_open_positions(Tb, Day1) = max_positions
    /\ \E snaps \in [RebalanceSymbols -> RebalanceSnapshots] : PartialBand(snaps)

\* the best candidate improves on the weakest held position by no more than the
\* partial threshold
BelowPartial(snaps) ==
    /\ Held # {} /\ Eligible(snaps) # {}
    /\ \A i \in Weaklings(snaps), s \in Bests(snaps) :
          ~ImprovementAbove(HeldScore(snaps, i), snaps[s].score,
                            rebalance_partial_threshold)

\* C28: the rebalancer takes no action (no decision, no transaction, returns 0)
\* whenever improvement_pct <= partial_threshold, where improvement_pct is
\* (best - weakest) / weakest x 100 for weakest > 0, 100 if weakest <= 0 and
\* best > 0, else 0.
C28_NoActionAtOrBelowPartialThreshold ==
    \A snaps \in [RebalanceSymbols -> Snapshots] :
        BelowPartial(snaps)
        => Rebalanced(snaps) = [tb |-> Tb, actions |-> 0, decisions |-> <<>>]

\* a tick with every slot taken did not rebalance, and a candidate no better
\* than the weakest position by the partial threshold is at hand
C28_HeldAgainstNoBetterCandidate ==
    /\ tick.rebalance_actions = 0 /\ ~tick.late
    /\ count_open_positions(Tb, Day1) = max_positions
    /\ \E snaps \in [RebalanceSymbols -> RebalanceSnapshots] : BelowPartial(snaps)

\* the proceeds of the sale a rebalance r booked
SaleProceeds(r) ==
    Round4(r.tb.ptxs[Len(ptxs) + 1].qty * r.tb.ptxs[Len(ptxs) + 1].price, 100)

\* the replacement buy cannot be made: nothing came in, or every best candidate
\* has used its entries of the day or is out of reach of the proceeds
NoReplacement(r, snaps) ==
    \/ SaleProceeds(r) <= 0
    \/ \A b \in Bests(snaps) :
          \/ entries_for_symbol(Tb, Day1, b) >= max_entries_per_symbol_per_day
          \/ qty_from_cash(snaps[b].close, SaleProceeds(r)) <= 0

\* C29: when a rebalance sell has executed but the replacement buy cannot be
\* made (zero proceeds, zero buy quantity, or the candidate's daily entry cap
\* reached), the sell is kept, no BUY decision or position is created, and apply
\* returns 1.
C29_SellKeptWithoutReplacement ==
    \A snaps \in [RebalanceSymbols -> Snapshots \cup {SnapZero}] :
        LET r == Rebalanced(snaps)
        IN  (r.actions >= 1 /\ NoReplacement(r, snaps))
            => /\ r.actions = 1
               /\ Len(r.decisions) = 1 /\ r.decisions[1].action = "SELL"
               /\ Len(r.tb.positions) = Len(positions)
               /\ Len(r.tb.ptxs) = Len(ptxs) + 1
               /\ r.tb.ptxs[Len(ptxs) + 1].side = "SELL"
               /\ \E w \in Weaklings(snaps) :
                     /\ r.tb.ptxs[Len(ptxs) + 1].position_id = w
                     /\ r.tb.positions[w].qty
                           = positions[w].qty - r.tb.ptxs[Len(ptxs) + 1].qty
                     /\ \A i \in 1 .. Len(positions) :
                           i # w => r.tb.positions[i] = positions[i]

\* a tick's rebalance sold and bought nothing: the candidate had been held and
\* closed earlier in the day
C29_SoldWithoutBuying ==
    /\ tick.rebalance_actions = 1 /\ ~tick.late
    /\ ptxs[Len(ptxs)].side = "SELL"
    /\ \E i \in 1 .. Len(positions) :
          /\ positions[i].status = "CLOSED"
          /\ i # ptxs[Len(ptxs)].position_id
          /\ positions[i].symbol # positions[ptxs[Len(ptxs)].position_id].symbol

ForcedOut(i, price) ==
    /\ positions'[i].status = "CLOSED" /\ positions'[i].qty = 0
    /\ positions'[i].exit_price = price
    /\ \E t \in Len(ptxs) + 1 .. Len(ptxs') :
          /\ ptxs'[t].position_id = i /\ ptxs'[t].side = "SELL"
          /\ ptxs'[t].qty = positions[i].qty /\ ptxs'[t].price = price

\* C31: after exit_day for a weekday date no paper position of that date is OPEN
\* and closed_positions is the number that were open before the call; a
\* position whose market data cannot be fetched is closed at its entry price.
C31_ExitDayClosesEveryPosition ==
    [][\A snaps \in [Symbols -> CalendarSnapshots] :
          ExitDay(Day1, snaps)
          => /\ get_open_positions(Tb', Day1) = {}
             /\ tick'.closed_positions = Cardinality(get_open_positions(Tb, Day1))
             /\ ~tick'.skipped_weekend
             /\ \A i \in get_open_positions(Tb, Day1) :
                   ForcedOut(i, IF snaps[positions[i].symbol].ok
                                THEN snaps[positions[i].symbol].close
                                ELSE positions[i].entry_price)]_vars

\* exit_day has closed a position for which no market data came, at its entry
\* price
C31_ClosedAtEntryPrice ==
    /\ tick.kind = "exit_day" /\ tick.closed_positions >= 1
    /\ get_open_positions(Tb, Day1) = {}
    /\ ptxs[Len(ptxs)].side = "SELL"
    /\ positions[ptxs[Len(ptxs)].position_id].symbol \in tick.missing
    /\ ptxs[Len(ptxs)].price = positions[ptxs[Len(ptxs)].position_id].entry_price
    /\ positions[ptxs[Len(ptxs)].position_id].exit_price
          = positions[ptxs[Len(ptxs)].position_id].entry_price

\* C32: run_tick and exit_day called with a Saturday or Sunday date change no
\* state (no tick row, decision, position, transaction or budget change) and
\* return a result flagged skipped_weekend with zero counts.
C32_WeekendTickAndExitAreNoOps ==
    [][\A d \in {Saturday, Sunday} :
          (\E snaps \in [Symbols -> CalendarSnapshots], late \in BOOLEAN :
              \/ RunTick(d, snaps, [s \in Symbols |-> SnapFail], late)
              \/ ExitDay(d, snaps))
          => /\ UNCHANGED <<dayBudget, positions, ptxs, dayPlan>>
             /\ UNCHANGED <<watchlist, plans, gtts, txs, budgets>>
             /\ tick'.skipped_weekend
             /\ tick'.wrote = {}
             /\ tick'.closed_positions = 0 /\ tick'.rebalance_actions = 0]_vars

\* a weekend tick was answered while a position of the last trading day is open
C32_WeekendTickWithOpenPosition ==
    /\ tick.kind = "run_tick" /\ tick.skipped_weekend
    /\ get_open_positions(Tb, Day1) # {}
    /\ dayPlan[Day1].exists

\* C33: plan_day called with a Saturday or Sunday date is a flagged no-op: it
\* creates or changes no day plan, universe snapshot or selection.
C33_WeekendPlanDayIsNoOp ==
    [][\A d \in {Saturday, Sunday}, f \in BOOLEAN, r \in BOOLEAN :
          PlanDay(d, f, r)
          => /\ dayPlan' = dayPlan
             /\ tick'.skipped_weekend
             /\ tick'.wrote = {}]_vars

\* a request for a weekend date has planned the Monday after it: a day plan
\* with its universe snapshot and a selection
C33_MondayPlannedFromWeekend ==
    /\ tick.kind = "plan_day" /\ ~tick.skipped_weekend
    /\ dayPlan[Day1 + 7].exists /\ dayPlan[Day1 + 7].universe
    /\ dayPlan[Day1 + 7].selections >= 1
    /\ ~dayPlan[Saturday].exists /\ ~dayPlan[Sunday].exists

---------------------------------------------------------------------------
(* C34: the background cleanup, run between any two handlers of the plan-based
   and tick-based pipelines and at any clock reading, removes from
   top_stock_audit exactly the rows whose date lies before today minus the
   retention days, adds none, and leaves trade_plan, gtt_orders, transactions
   and daily_budget as they are.  Its outcome is a function of the audit rows
   and the clock alone. *)
C34_CleanupTouchesOnlyExpiredAudits ==
    [][\A today \in CleanupDays :
          _run_once(today)
          => /\ audits' \subseteq audits
             /\ \A r \in audits :
                   r \in audits' <=> r.date >= today - audit_retention_days
             /\ UNCHANGED <<plans, gtts, txs, budgets>>
             /\ UNCHANGED <<watchlist, dayBudget, positions, ptxs, dayPlan>>]_vars

\* a cleanup has purged the rows of the first date and kept those of the second
\* while a trade plan, its orders and a budget row exist
C34_PurgedBesideOpenPlan ==
    /\ call.fn = "cleanup_expired" /\ call.purged > 0
    /\ \E r \in audits : r.date = Day1 + DayGap
    /\ \A r \in audits : r.date # Day1
    /\ \E i \in 1 .. Len(plans) : plans[i].status = "OPEN"
    /\ gtts # <<>> /\ txs # <<>>
    /\ budgets[<<Day1, "SWING">>] # NoBudget

---------------------------------------------------------------------------
(* C35: after any sequence of swing runs the number of SWING trade plans in
   status OPEN is at most swing_max_open_positions. *)
C35_OpenSwingPlansWithinCap ==
    Cardinality({i \in 1 .. Len(plans) : plans[i].mode = "SWING" /\ plans[i].status = "OPEN"})
        <= swing_max_open_positions

\* three orders placed by one run while no plan was OPEN have all been
\* triggered by the next
C35_ThreeOpenSwingPlans ==
    /\ run.kind = "swing" /\ run.returned
    /\ \A s \in CapSymbols :
          \E i \in 1 .. Len(plans) :
              /\ plans[i].symbol = s /\ plans[i].mode = "SWING" /\ plans[i].status = "OPEN"
              /\ \E g \in 1 .. Len(gtts) :
                    /\ gtts[g].linked_trade_plan_id = i /\ gtts[g].side = "BUY"
                    /\ gtts[g].status = "TRIGGERED"

---------------------------------------------------------------------------
(* C36: in the plan-based INTRADAY ledger every executed BUY costs at most
   what remained of the day's budget just before the fill, and in every
   reachable state of an INTRADAY daily_budget row spent <= budget_total. *)

\* what the day's INTRADAY budget row holds, or would hold once created
IntradayRemaining(run_date) ==
    IF budgets[<<run_date, "INTRADAY">>].exists
    THEN budgets[<<run_date, "INTRADAY">>].remaining
    ELSE _default_budget_total("INTRADAY")

\* a run fills at most one INTRADAY BUY, so the remaining it finds is the
\* remaining just before the fill
BuyWithinRemaining ==
    \A i \in Len(txs) + 1 .. Len(txs') :
        (txs'[i].mode = "INTRADAY" /\ txs'[i].side = "BUY")
        => /\ txs'[i].qty * txs'[i].entry_price <= IntradayRemaining(txs'[i].date)
           /\ \A j \in Len(txs) + 1 .. Len(txs') :
                 (txs'[j].mode = "INTRADAY" /\ txs'[j].side = "BUY") => j = i

SpentWithinTotal ==
    \A d \in Dates :
        budgets[<<d, "INTRADAY">>].exists
        => budgets[<<d, "INTRADAY">>].spent <= budgets[<<d, "INTRADAY">>].budget_total

C36_IntradaySpentWithinBudget == []SpentWithinTotal /\ [][BuyWithinRemaining]_vars

\* after a BUY and the SELL that closed it, a second BUY signal finds less
\* remaining than one share costs and its plan is cancelled
C36_SecondBuySizedToZero ==
    /\ run.kind = "intraday"
    /\ budgets[<<Day1, "INTRADAY">>].spent > 0
    /\ \E i, j, k \in 1 .. Len(plans) :
          /\ i < j /\ j < k
          /\ plans[i].side = "BUY" /\ plans[i].status = "OPEN" /\ plans[i].qty > 0
          /\ plans[j].side = "SELL" /\ plans[j].status = "CLOSED"
          /\ plans[k].side = "BUY" /\ plans[k].status = "CANCELLED" /\ plans[k].qty = 0
    /\ get_open_position_count(Db(0), Day1, "INTRADAY") = 0

---------------------------------------------------------------------------
(* C37: in the tick-based ledger the remaining cash of a day's budget row is
   budget_total, less the cost (qty x entry_price) of the positions of the date
   still OPEN, plus the realized pnl of all positions of the date; each
   transaction may add one pip of rounding. *)

\* cost of the OPEN positions of the date, in hundredths of a pip
OpenCost(run_date) ==
    SeqSum([i \in 1 .. Len(positions) |->
               IF positions[i].date = run_date /\ positions[i].status = "OPEN"
               THEN positions[i].qty * positions[i].entry_price ELSE 0])

\* realized pnl of the positions of the date, in pips
RealizedPnl(run_date) ==
    SeqSum([i \in 1 .. Len(positions) |->
               IF positions[i].date = run_date THEN positions[i].pnl ELSE 0])

C37_RemainingIsCashIdentity ==
    \A d \in DOMAIN dayBudget :
        dayBudget[d].exists
        => Abs(100 * dayBudget[d].remaining
                 - (100 * dayBudget[d].budget_total - OpenCost(d) + 100 * RealizedPnl(d)))
              <= 100 * Len(ptxs)

\* a position closed at a loss and another sold in part at a gain are both
\* behind the day's remaining cash
C37_AfterPartialSaleAndLoss ==
    /\ dayBudget[Day1].exists
    /\ \E i \in 1 .. Len(positions) :
          /\ positions[i].status = "OPEN" /\ positions[i].pnl > 0
    /\ \E i \in 1 .. Len(positions) :
          /\ positions[i].status = "CLOSED" /\ positions[i].pnl < 0
    /\ OpenCost(Day1) > 0

---------------------------------------------------------------------------
(* C38: close_position sells the smaller of the requested quantity and the
   quantity the position holds; the quantity of a position is never negative
   and the quantity sold from it never exceeds the quantity bought for it. *)

\* quantity of the paper transactions of one side booked for the position
PaperQty(position_id, side) ==
    SeqSum([k \in 1 .. Len(ptxs) |->
               IF ptxs[k].position_id = position_id /\ ptxs[k].side = side
               THEN ptxs[k].qty ELSE 0])

NeverOversold ==
    \A i \in 1 .. Len(positions) :
        /\ positions[i].qty >= 0
        /\ PaperQty(i, "SELL") <= PaperQty(i, "BUY")
        /\ positions[i].qty = PaperQty(i, "BUY") - PaperQty(i, "SELL")

SellsTheSmaller ==
    \A i \in 1 .. Len(positions), p \in LedgerPrices :
        \A q \in CloseQtys(i) :
            ClosePosition(i, q, p)
            => LET sell_qty == IF q <= positions[i].qty THEN q ELSE positions[i].qty
               IN  /\ positions'[i].qty = positions[i].qty - sell_qty
                   /\ IF sell_qty <= 0 THEN ptxs' = ptxs
                      ELSE ptxs' = Append(ptxs, [position_id |-> i, side |-> "SELL",
                                                 qty |-> sell_qty, price |-> p])

C38_ClosePositionNeverOversells == []NeverOversold /\ [][SellsTheSmaller]_vars

\* a position sold in part and then closed: what was sold is what was bought
C38_SoldOutInTwoSales ==
    \E i \in 1 .. Len(positions) :
        /\ positions[i].status = "CLOSED" /\ positions[i].qty = 0
        /\ Cardinality({k \in 1 .. Len(ptxs) :
                            ptxs[k].position_id = i /\ ptxs[k].side = "SELL"}) = 2
        /\ PaperQty(i, "SELL") = PaperQty(i, "BUY")

---------------------------------------------------------------------------
(* C39: whenever a SWING trade plan is CLOSED no gtt_orders row linked to it
   is PENDING: its SELL order is TRIGGERED if the plan was closed by the
   order's trigger (the sale is a GTT_TRIGGER transaction) and CANCELLED if it
   was closed by an exit signal (the sale is a MARKET transaction). *)

LinkedOrders(plan_id) == {g \in 1 .. Len(gtts) : gtts[g].linked_trade_plan_id = plan_id}

SoldBy(plan_id, order_type) ==
    \E t \in 1 .. Len(txs) :
        /\ txs[t].trade_plan_id = plan_id /\ txs[t].side = "SELL"
        /\ txs[t].order_type = order_type

C39_ClosedPlanHasNoPendingOrder ==
    \A i \in 1 .. Len(plans) :
        (plans[i].mode = "SWING" /\ plans[i].status = "CLOSED")
        => /\ \A g \in LinkedOrders(i) : gtts[g].status # "PENDING"
           /\ \A g \in LinkedOrders(i) :
                 gtts[g].side = "SELL"
                 => /\ SoldBy(i, "GTT_TRIGGER") => gtts[g].status = "TRIGGERED"
                    /\ SoldBy(i, "MARKET") => gtts[g].status = "CANCELLED"
           /\ SoldBy(i, "GTT_TRIGGER") \/ SoldBy(i, "MARKET")

\* a plan closed by an exit signal while its trailing-stop order was pending
C39_ClosedByExitSignal ==
    \E i \in 1 .. Len(plans) :
        /\ plans[i].mode = "SWING" /\ plans[i].status = "CLOSED"
        /\ SoldBy(i, "MARKET")
        /\ \E g \in LinkedOrders(i) : gtts[g].side = "BUY" /\ gtts[g].status = "TRIGGERED"
        /\ \E g \in LinkedOrders(i) : gtts[g].side = "SELL" /\ gtts[g].status = "CANCELLED"

---------------------------------------------------------------------------
(* C40: after any sequence of run-tick requests the BUY paper transactions of
   one date and symbol, regular entries and rebalance buys together, number at
   most max_entries_per_symbol_per_day. *)

PaperBuys(run_date, symbol) ==
    {k \in 1 .. Len(ptxs) :
        /\ ptxs[k].side = "BUY"
        /\ \E i \in 1 .. Len(positions) :
              /\ i = ptxs[k].position_id
              /\ positions[i].date = run_date /\ positions[i].symbol = symbol}

C40_EntriesPerSymbolWithinCap ==
    \A d \in DOMAIN dayBudget, s \in RebalanceSymbols :
        Cardinality(PaperBuys(d, s)) <= max_entries_per_symbol_per_day

\* every symbol of the selection has been entered once and a slot is free
\* again after a sale: no symbol is left that a tick may enter
C40_AllEnteredOnceSlotFree ==
    /\ tick.kind = "run_tick" /\ ~tick.late
    /\ \A s \in RebalanceSymbols :
          Cardinality(PaperBuys(Day1, s)) = max_entries_per_symbol_per_day
    /\ \E i \in 1 .. Len(positions) : positions[i].status = "CLOSED"
    /\ Cardinality({i \in 1 .. Len(positions) : positions[i].status = "OPEN"})
          < max_positions

====
